---- MODULE Spec2Model ----
(***************************************************************************)
(* Transactional core of the online-store backend: carts, cart -> order    *)
(* conversion with stock reservation, the order status machine,            *)
(* cancellation and the inventory log.                                     *)
(*                                                                         *)
(* The store is one relational database.  Every request handler runs with  *)
(* its own SQLAlchemy session (app/db/session.py get_db): what a handler   *)
(* has changed but not committed when it raises is discarded when the      *)
(* session is closed.  A handler is therefore modelled as a function from  *)
(* the database to a "session" (the database as the handler would commit   *)
(* it, plus the error it raised, if any); the action persists the session  *)
(* when the handler committed and keeps the old database otherwise.        *)
(***************************************************************************)
EXTENDS Integers, Sequences, FiniteSets, TLC

(* ------------------------------ bounds -------------------------------- *)
InitStock  == 1      \* stock of every product in the initial catalogue
MaxOrders  == 1      \* orders created by the sequential handlers
MaxCarts   == 1      \* carts created
MaxCartRows == 3                \* rows of the carts table in the cart specifications
MaxAdjust  == 1      \* manual stock adjustments
MaxHistory == 2      \* rows of order_status_history
MaxLedger  == 5      \* rows of inventory_logs
NumProcs   == 2      \* concurrent request handlers
MaxVariationOrders == 2         \* orders and carts in the specification of variations

Products   == {1, 2}              \* the catalogue
CoreProducts == {1}               \* the product most handlers are called with
Prices     == {100, 150}          \* Product.price is positive
Variations == {1}                 \* variation 1 belongs to product 1
Users      == {1, 2}             \* registered customers
Shoppers   == {1}                \* customers who use a cart
NoneId     == 0                   \* Python None in an optional id column
AdminId    == 9
Procs      == 1..NumProcs
SessionTokens == {1}             \* session tokens of anonymous visitors

(* ------------------------- catalogue (external) ------------------------ *)
VariationProduct(v) == 1          \* ProductVariation.product_id
VariationStock(v)   == 1          \* ProductVariation.stock (tracked)

(* ----------------------------- enums ---------------------------------- *)
OrderStatus ==
    {"pending", "confirmed", "processing", "shipped", "out_for_delivery",
     "delivered", "cancelled", "refunded", "on_hold", "failed"}

PaymentStatus ==
    {"pending", "processing", "paid", "failed", "refunded",
     "partially_refunded", "cancelled"}

CartStatus == {"active", "converted", "expired", "abandoned"}

MAX_QUANTITY_PER_ITEM == 10
ORDER_CANCELLATION_WINDOW_HOURS == 24

(* ----------------------------- state ---------------------------------- *)
VARIABLES
    stock,      \* Product.stock                  [Products -> Int]
    active,     \* Product.is_active              [Products -> BOOLEAN]
    price,      \* Product.price                  [Products -> Prices]
    ledger,     \* inventory_logs, in insert order
    orders,     \* orders, order id = index; items are the order_items rows
    history,    \* order_status_history, in insert order
    carts,      \* carts, cart id = index; items are the cart_items rows
    response,   \* outcome of the last handler call
    procs       \* concurrent handlers: position and session snapshot

dbvars == <<stock, ledger, orders, history, carts>>
vars   == <<stock, active, price, ledger, orders, history, carts, response, procs>>

ProductPrice(p)     == price[p]   \* Product.price

(* OrderService.generate_order_number when its random suffix hits no
   number in use: the orders are numbered as they come *)
UnusedOrderNumber == Len(orders) + 1

(* The tables a handler's transaction can write; "generated" is what
   generate_order_number returns in this request. *)
DB ==
    [stock |-> stock, ledger |-> ledger, orders |-> orders,
     history |-> history, carts |-> carts, err |-> "", code |-> 200,
     wrapped |-> FALSE, committed |-> FALSE, order_id |-> NoneId,
     cart_id |-> NoneId, generated |-> UnusedOrderNumber, partial |-> FALSE,
     totals |-> [subtotal |-> 0, tax |-> 0, shipping |-> 0, total |-> 0],
     issues |-> <<>>]

Persist(s) ==
    /\ stock'   = s.stock
    /\ ledger'  = s.ledger
    /\ orders'  = s.orders
    /\ history' = s.history
    /\ carts'   = s.carts

(* raise: the error is recorded, the handler stops *)
Raise(s, err, code) == [s EXCEPT !.err = err, !.code = code]

Failed(s) == s.err # ""

(* raise right after a db.commit(): what was committed stays *)
RaiseAfterCommit(s, err, code) ==
    [s EXCEPT !.err = err, !.code = code, !.committed = TRUE, !.partial = TRUE]

(* db.commit() *)
Commit(s) == [s EXCEPT !.committed = TRUE]

(* db.rollback(), and the close of a session that raised before its       *)
(* commit: the tables are those of the last commit, the error is kept.    *)
RollbackKeepsWrites(before, s) == s

Rollback(before, s) ==
    [s EXCEPT !.stock = before.stock, !.ledger = before.ledger,
              !.orders = before.orders, !.history = before.history,
              !.carts = before.carts]

(* What the request leaves behind: a handler that returned has committed; *)
(* a handler that raised leaves its last commit.                          *)
Outcome(before, s) ==
    IF s.committed /\ (~Failed(s) \/ s.partial) THEN s ELSE Rollback(before, s)

Respond(op, s, args) ==
    response' = [op |-> op, ok |-> ~Failed(s), err |-> s.err, code |-> s.code,
                 wrapped |-> s.wrapped, order_id |-> s.order_id]

(* ============================ Cart Manager ============================ *)
Indices(seq) == 1..Len(seq)

Min(S) == CHOOSE x \in S : \A y \in S : x <= y

(* query(...).first(): the row with the lowest id, 0 for None *)
First(S) == IF S = {} THEN NoneId ELSE Min(S)

TAX_RATE_PERCENT == 18              \* TAX_RATE = Decimal("0.18")
FREE_SHIPPING_THRESHOLD == 50000
SHIPPING_COST == 5000

NewCart(user_id, session_id) ==
    [user_id |-> user_id,
     session_id |-> IF user_id = NoneId THEN session_id ELSE NoneId,
     status |-> "active", expired |-> FALSE, items |-> <<>>,
     subtotal |-> 0, tax_amount |-> 0, discount_amount |-> 0, total |-> 0]

(* the sum of unit_price x quantity over cart lines *)
RECURSIVE SubtotalLivePrice(_)
SubtotalLivePrice(items) ==
    IF items = <<>> THEN 0
    ELSE ProductPrice(Head(items).product_id) * Head(items).quantity
         + SubtotalLivePrice(Tail(items))

RECURSIVE Subtotal(_)
Subtotal(items) ==
    IF items = <<>> THEN 0
    ELSE (IF Head(items).unit_price # 0 THEN Head(items).unit_price
          ELSE ProductPrice(Head(items).product_id)) * Head(items).quantity
         + Subtotal(Tail(items))

(* subtotal * TAX_RATE *)
TaxOn(subtotal) == (subtotal * TAX_RATE_PERCENT) \div 100

(* CartService._update_cart_totals: the amounts it computes *)
CartTotals(cart) ==
    LET subtotal   == Subtotal(cart.items)
        tax_amount == TaxOn(subtotal)
        shipping   == IF subtotal < FREE_SHIPPING_THRESHOLD /\ subtotal > 0
                      THEN SHIPPING_COST ELSE 0
        discount   == cart.discount_amount
    IN [subtotal |-> subtotal, tax |-> tax_amount, shipping |-> shipping,
        total |-> subtotal + tax_amount + shipping - discount]

(* CartService._update_cart_totals *)
UpdateCartTotals(s, c) ==
    LET totals == CartTotals(s.carts[c])
    IN Commit([s EXCEPT !.carts[c].subtotal = totals.subtotal,
                        !.carts[c].tax_amount = totals.tax,
                        !.carts[c].total = totals.total])

(* CartService.get_cart_summary: the totals are recomputed and stored, the *)
(* summary (in totals) is read from the cart                               *)
GetCartSummaryOp(db, c) ==
    LET s    == UpdateCartTotals(db, c)
        cart == s.carts[c]
    IN [s EXCEPT !.totals =
          [subtotal |-> cart.subtotal, tax |-> cart.tax_amount,
           shipping |-> IF cart.subtotal # 0
                           /\ cart.subtotal < FREE_SHIPPING_THRESHOLD
                           /\ cart.subtotal > 0
                        THEN SHIPPING_COST ELSE 0,
           total |-> cart.total]]

(* CartService.get_cart *)
GetCart(db, user_id, session_id) ==
    IF user_id # NoneId
    THEN First({c \in Indices(db.carts) :
                  db.carts[c].user_id = user_id /\ db.carts[c].status = "active"})
    ELSE IF session_id # NoneId
    THEN First({c \in Indices(db.carts) :
                  db.carts[c].session_id = session_id /\ db.carts[c].status = "active"})
    ELSE NoneId

(* the unique index on carts.session_id: a cart of any status holds the    *)
(* token                                                                   *)
SessionIdTaken(db, cart) ==
    /\ cart.session_id # NoneId
    /\ \E c \in Indices(db.carts) : db.carts[c].session_id = cart.session_id

(* db.add(cart); db.commit(): the INSERT, refused by the unique index on
   carts.session_id when a cart of any status has the token already *)
InsertCart(db, cart) ==
    IF SessionIdTaken(db, cart)
    THEN Raise(db, "IntegrityError", 500)
    ELSE Commit([db EXCEPT !.carts = Append(@, cart), !.cart_id = Len(db.carts) + 1])

(* CartService.get_or_create_cart after its query returned cart (0 for    *)
(* None); "expired" is is_expired, i.e. whether expires_at lies in the     *)
(* past                                                                    *)
CartAfterQuery(db, cart, user_id, session_id) ==
    IF cart = NoneId
    THEN InsertCart(db, NewCart(user_id, session_id))
    ELSE IF db.carts[cart].expired
    THEN LET s1 == Commit([db EXCEPT !.carts[cart].status = "expired"])
             s2 == InsertCart(s1, NewCart(user_id, session_id))
         IN IF Failed(s2) THEN RaiseAfterCommit(s1, s2.err, s2.code) ELSE s2
    ELSE Commit([db EXCEPT !.carts[cart].expired = FALSE, !.cart_id = cart])

(* CartService.get_or_create_cart *)
GetOrCreateCartOp(db, user_id, session_id) ==
    CartAfterQuery(db, GetCart(db, user_id, session_id), user_id, session_id)

ExistingItemNever(cart, product_id, variation_id) == NoneId

(* the line of a cart for (product, variation), 0 for None *)
ExistingItem(cart, product_id, variation_id) ==
    First({i \in Indices(cart.items) :
             /\ cart.items[i].product_id = product_id
             /\ cart.items[i].variation_id = variation_id})

(* stock figure the cart checks a line against *)
AvailableStock(db, product_id, variation_id) ==
    IF variation_id # NoneId /\ variation_id \in Variations
    THEN VariationStock(variation_id)
    ELSE db.stock[product_id]

AddItemOpStockFirst(db, act, c, product_id, variation_id, quantity) ==
    IF product_id \notin Products \/ ~act[product_id]
    THEN Raise(db, "NotFound", 404)
    ELSE IF variation_id # NoneId
            /\ (variation_id \notin Variations
                \/ VariationProduct(variation_id) # product_id)
    THEN Raise(db, "NotFound", 404)
    ELSE
      LET existing_item == ExistingItem(db.carts[c], product_id, variation_id)
          new_quantity  == IF existing_item # NoneId
                           THEN db.carts[c].items[existing_item].quantity + quantity
                           ELSE quantity
      IN
      IF new_quantity > AvailableStock(db, product_id, variation_id)
      THEN Raise(db, "InsufficientStock", 400)
      ELSE IF new_quantity > MAX_QUANTITY_PER_ITEM
      THEN Raise(db, "LimitExceeded", 400)
      ELSE IF existing_item # NoneId
      THEN UpdateCartTotals(Commit([db EXCEPT
                     !.carts[c].items[existing_item].quantity = new_quantity,
                     !.carts[c].items[existing_item].unit_price = ProductPrice(product_id)]),
                  c)
      ELSE UpdateCartTotals(Commit([db EXCEPT
                     !.carts[c].items = Append(@,
                        [product_id |-> product_id, variation_id |-> variation_id,
                         quantity |-> quantity,
                         unit_price |-> ProductPrice(product_id)])]),
                  c)

(* add_item that also takes the quantity out of the product's stock *)
AddItemOpReserving(db, act, c, product_id, variation_id, quantity) ==
    LET s == AddItemOpStockFirst(db, act, c, product_id, variation_id, quantity)
    IN IF Failed(s) THEN s
       ELSE [s EXCEPT !.stock[product_id] = @ - quantity]

(* CartService.add_item *)
AddItemOp(db, act, c, product_id, variation_id, quantity) ==
    IF product_id \notin Products \/ ~act[product_id]
    THEN Raise(db, "NotFound", 404)
    ELSE IF variation_id # NoneId
            /\ (variation_id \notin Variations
                \/ VariationProduct(variation_id) # product_id)
    THEN Raise(db, "NotFound", 404)
    ELSE
      LET existing_item == ExistingItem(db.carts[c], product_id, variation_id)
          new_quantity  == IF existing_item # NoneId
                           THEN db.carts[c].items[existing_item].quantity + quantity
                           ELSE quantity
      IN
      IF new_quantity > MAX_QUANTITY_PER_ITEM
      THEN Raise(db, "LimitExceeded", 400)
      ELSE IF new_quantity > AvailableStock(db, product_id, variation_id)
      THEN Raise(db, "InsufficientStock", 400)
      ELSE IF existing_item # NoneId
      THEN UpdateCartTotals(Commit([db EXCEPT
                     !.carts[c].items[existing_item].quantity = new_quantity,
                     !.carts[c].items[existing_item].unit_price = ProductPrice(product_id)]),
                  c)
      ELSE UpdateCartTotals(Commit([db EXCEPT
                     !.carts[c].items = Append(@,
                        [product_id |-> product_id, variation_id |-> variation_id,
                         quantity |-> quantity,
                         unit_price |-> ProductPrice(product_id)])]),
                  c)

(* the sequence without its i-th element *)
RemoveAt(seq, i) ==
    [k \in 1..(Len(seq) - 1) |-> IF k < i THEN seq[k] ELSE seq[k + 1]]

(* CartService.update_item_quantity; item_id is the line's position *)
UpdateItemQuantityOp(db, c, item_id, quantity) ==
    IF item_id \notin Indices(db.carts[c].items)
    THEN Raise(db, "NotFound", 404)
    ELSE
      LET cart_item == db.carts[c].items[item_id] IN
      IF quantity > MAX_QUANTITY_PER_ITEM
      THEN Raise(db, "LimitExceeded", 400)
      ELSE IF quantity > AvailableStock(db, cart_item.product_id, cart_item.variation_id)
      THEN Raise(db, "InsufficientStock", 400)
      ELSE UpdateCartTotals(Commit([db EXCEPT
                !.carts[c].items[item_id].quantity = quantity,
                !.carts[c].items[item_id].unit_price =
                    ProductPrice(cart_item.product_id)]),
             c)

RemoveItemOpStaleTotals(db, c, item_id) ==
    IF item_id \notin Indices(db.carts[c].items)
    THEN Raise(db, "NotFound", 404)
    ELSE Commit([db EXCEPT !.carts[c].items = RemoveAt(@, item_id)])

(* CartService.remove_item *)
RemoveItemOp(db, c, item_id) ==
    IF item_id \notin Indices(db.carts[c].items)
    THEN Raise(db, "NotFound", 404)
    ELSE UpdateCartTotals(Commit([db EXCEPT
              !.carts[c].items = RemoveAt(@, item_id)]), c)

(* CartService.clear_cart *)
ClearCartOp(db, c) ==
    Commit([db EXCEPT !.carts[c].items = <<>>,
                      !.carts[c].subtotal = 0,
                      !.carts[c].tax_amount = 0,
                      !.carts[c].total = 0,
                      !.carts[c].discount_amount = 0])

(* the loop of merge_session_cart: each session line becomes a
   CartItemCreate, whose quantity pydantic validates (ge=1, le=10; its
   ValidationError is not a CartError and leaves the loop), and goes
   through add_item, whose CartError is swallowed and the line skipped *)
RECURSIVE MergeItems(_, _, _, _)
MergeItems(s, act, user_cart, session_items) ==
    IF session_items = <<>> THEN s
    ELSE LET session_item == Head(session_items)
             added == AddItemOp(s, act, user_cart, session_item.product_id,
                                session_item.variation_id, session_item.quantity)
         IN IF session_item.quantity \notin 1..MAX_QUANTITY_PER_ITEM
            THEN RaiseAfterCommit(s, "ValidationError", 500)
            ELSE MergeItems(IF Failed(added) THEN s ELSE added,
                            act, user_cart, Tail(session_items))

(* CartService.merge_session_cart *)
MergeSessionCartOp(db, act, user_id, session_id) ==
    LET session_cart == GetCart(db, NoneId, session_id) IN
    IF session_cart = NoneId \/ db.carts[session_cart].items = <<>>
    THEN db
    ELSE
      LET s1 == GetOrCreateCartOp(db, user_id, NoneId)
          s2 == MergeItems(s1, act, s1.cart_id, db.carts[session_cart].items)
      IN IF Failed(s2) THEN s2
         ELSE Commit([s2 EXCEPT !.carts[session_cart].status = "converted"])

RECURSIVE LineIssuesFirstOnly(_, _, _)
LineIssuesFirstOnly(db, act, items) ==
    IF items = <<>> THEN <<>>
    ELSE LET item == Head(items)
         IN IF ~act[item.product_id]
            THEN <<[product_id |-> item.product_id, issue |-> "unavailable"]>>
            ELSE IF item.quantity >
                      AvailableStock(db, item.product_id, item.variation_id)
            THEN <<[product_id |-> item.product_id, issue |-> "stock"]>>
            ELSE LineIssuesFirstOnly(db, act, Tail(items))

(* CartService.validate_cart_for_checkout: the list of issues *)
RECURSIVE LineIssues(_, _, _)
LineIssues(db, act, items) ==
    IF items = <<>> THEN <<>>
    ELSE LET item == Head(items)
             rest == LineIssues(db, act, Tail(items))
         IN IF ~act[item.product_id]
            THEN <<[product_id |-> item.product_id, issue |-> "unavailable"]>> \o rest
            ELSE IF item.quantity >
                      AvailableStock(db, item.product_id, item.variation_id)
            THEN <<[product_id |-> item.product_id, issue |-> "stock"]>> \o rest
            ELSE rest

ValidateCartForCheckout(db, act, cart) ==
    IF cart.items = <<>>
    THEN <<[product_id |-> NoneId, issue |-> "empty"]>>
    ELSE LineIssues(db, act, cart.items)

(* CartService.validate_cart_for_checkout as a call of its own: it reads  *)
(* the cart and the catalogue and returns the issues                       *)
ValidateCartOp(db, act, c) ==
    [db EXCEPT !.issues = ValidateCartForCheckout(db, act, db.carts[c])]

(* CartService.mark_cart_converted *)
MarkCartConverted(s, c) == Commit([s EXCEPT !.carts[c].status = "converted"])

(* ========================= Stock Reservation ========================== *)
LogEntry(product_id, change, new_stock, reason, order_id, admin_id) ==
    [product_id |-> product_id, change_quantity |-> change,
     new_stock |-> new_stock, reason |-> reason,
     order_id |-> order_id, admin_id |-> admin_id]

(* OrderService._reserve_stock_direct *)
ReserveStockUnchecked(s, product_id, quantity, order_id) ==
    [s EXCEPT !.stock[product_id] = @ - quantity,
              !.ledger = Append(@, LogEntry(product_id, -quantity,
                                   s.stock[product_id] - quantity,
                                   "order_placed", order_id, NoneId))]

ReserveStockDirectNoLog(s, product_id, quantity, order_id) ==
    IF product_id \notin Products
    THEN Raise(s, "NotFound", 404)
    ELSE IF s.stock[product_id] < quantity
    THEN Raise(s, "InsufficientStock", 400)
    ELSE [s EXCEPT !.stock[product_id] = @ - quantity]

ReserveStockDirect(s, product_id, quantity, order_id) ==
    IF product_id \notin Products
    THEN Raise(s, "NotFound", 404)
    ELSE IF s.stock[product_id] < quantity
    THEN Raise(s, "InsufficientStock", 400)
    ELSE [s EXCEPT !.stock[product_id] = @ - quantity,
                   !.ledger = Append(@, LogEntry(product_id, -quantity,
                                        s.stock[product_id] - quantity,
                                        "order_placed", order_id, NoneId))]

(* OrderService._reserve_stock (the product of the cart line) *)
ReserveStock(s, cart_item, order_id) ==
    IF s.stock[cart_item.product_id] < cart_item.quantity
    THEN Raise(s, "InsufficientStock", 400)
    ELSE [s EXCEPT !.stock[cart_item.product_id] = @ - cart_item.quantity,
                   !.ledger = Append(@, LogEntry(cart_item.product_id,
                                        -cart_item.quantity,
                                        s.stock[cart_item.product_id] - cart_item.quantity,
                                        "order_placed", order_id, NoneId))]

(* OrderService._release_stock *)
ReleaseStockNoLog(s, product_id, quantity, order_id) ==
    IF product_id \in Products
    THEN [s EXCEPT !.stock[product_id] = @ + quantity]
    ELSE s

ReleaseStockOffByOne(s, product_id, quantity, order_id) ==
    IF product_id \in Products
    THEN [s EXCEPT !.stock[product_id] = @ + quantity + 1,
                   !.ledger = Append(@, LogEntry(product_id, quantity + 1,
                                        s.stock[product_id] + quantity + 1,
                                        "order_cancelled", order_id, NoneId))]
    ELSE s

ReleaseStock(s, product_id, quantity, order_id) ==
    IF product_id \in Products
    THEN [s EXCEPT !.stock[product_id] = @ + quantity,
                   !.ledger = Append(@, LogEntry(product_id, quantity,
                                        s.stock[product_id] + quantity,
                                        "order_cancelled", order_id, NoneId))]
    ELSE s

(* InventoryService.update_stock *)
UpdateStockOp(db, product_id, change_quantity, reason, admin_id) ==
    IF product_id \notin Products
    THEN Raise(db, "NotFound", 404)
    ELSE LET new_stock == db.stock[product_id] + change_quantity IN
         IF new_stock < 0
         THEN Raise(db, "BelowZero", 400)
         ELSE Commit([db EXCEPT
                        !.stock[product_id] = new_stock,
                        !.ledger = Append(@, LogEntry(product_id, change_quantity,
                                             new_stock, reason, NoneId, admin_id))])

(* ============================ Order Engine ============================ *)
(* Attributes of the Order class (app/models/order.py): mapped columns are *)
(* stored; a property without a setter raises AttributeError when assigned;*)
(* a name the class does not define raises AttributeError when read and    *)
(* becomes an unmapped instance attribute (never stored) when assigned.    *)
OrderColumns ==
    {"user_id", "status", "payment_status", "tracking_number", "carrier",
     "notes", "created_at"}

OrderReadOnlyProperties ==
    {"payment_transaction_id", "payment_gateway", "shipping_carrier",
     "shipped_at", "delivered_at", "is_cancellable", "is_paid"}

(* order.<attr> = value, for an attribute that is not a mapped column *)
SetUnmapped(s, attr) ==
    IF attr \in OrderReadOnlyProperties
    THEN Raise(s, "AttributeError", 500)
    ELSE s

(* value = order.<attr> *)
CanRead(attr) == attr \in OrderColumns \cup OrderReadOnlyProperties

NoNotes == ""          \* notes=None
NoStatus == "none"     \* from_status=None

(* Order(...) as both creation paths build it *)
NewOrderConfirmed(user_id, order_number) ==
    [user_id |-> user_id, order_number |-> order_number,
     status |-> "confirmed", payment_status |-> "pending",
     items |-> <<>>, tracking_number |-> "", carrier |-> "", aged |-> FALSE]

NewOrder(user_id, order_number) ==
    [user_id |-> user_id, order_number |-> order_number,
     status |-> "pending", payment_status |-> "pending",
     items |-> <<>>, tracking_number |-> "", carrier |-> "", aged |-> FALSE]

(* db.add(order); db.flush(): the INSERT, refused by the unique index on
   order_number when an order has the number already *)
InsertOrder(db, order) ==
    IF \E o \in Indices(db.orders) : db.orders[o].order_number = order.order_number
    THEN Raise(db, "IntegrityError", 500)
    ELSE [db EXCEPT !.orders = Append(@, order),
                    !.order_id = Len(db.orders) + 1]

(* Order.is_cancellable *)
IsCancellableAnyStatus(order) ==
    order.status \in OrderStatus

IsCancellable(order) ==
    order.status \in {"pending", "confirmed", "processing"}

(* OrderService._get_valid_status_transitions *)
ValidStatusTransitionsReopen(current_status) ==
    CASE current_status = "pending" ->
           {"confirmed", "cancelled", "failed", "on_hold"}
      [] current_status = "confirmed"        -> {"processing", "cancelled", "on_hold"}
      [] current_status = "processing"       -> {"shipped", "cancelled", "on_hold"}
      [] current_status = "shipped"          -> {"out_for_delivery", "delivered"}
      [] current_status = "out_for_delivery" -> {"delivered"}
      [] current_status = "delivered"        -> {"refunded"}
      [] current_status = "on_hold"          -> {"pending", "processing", "cancelled"}
      [] current_status = "cancelled"        -> {"pending"}
      [] current_status = "refunded"         -> {"pending"}
      [] current_status = "failed"           -> {"pending"}
      [] OTHER -> {}

ValidStatusTransitionsLoose(current_status) ==
    CASE current_status = "pending" ->
           {"confirmed", "cancelled", "failed", "on_hold", "processing"}
      [] current_status = "confirmed"  -> {"processing", "cancelled", "on_hold"}
      [] current_status = "processing" -> {"shipped", "cancelled", "on_hold"}
      [] current_status = "on_hold"    -> {"pending", "processing", "cancelled"}
      [] current_status = "failed"     -> {"pending"}
      [] OTHER -> {}

ValidStatusTransitions(current_status) ==
    CASE current_status = "pending" ->
           {"confirmed", "cancelled", "failed", "on_hold"}
      [] current_status = "confirmed"        -> {"processing", "cancelled", "on_hold"}
      [] current_status = "processing"       -> {"shipped", "cancelled", "on_hold"}
      [] current_status = "shipped"          -> {"out_for_delivery", "delivered"}
      [] current_status = "out_for_delivery" -> {"delivered"}
      [] current_status = "delivered"        -> {"refunded"}
      [] current_status = "on_hold"          -> {"pending", "processing", "cancelled"}
      [] current_status = "cancelled"        -> {}
      [] current_status = "refunded"         -> {}
      [] current_status = "failed"           -> {"pending"}
      [] OTHER -> {}

(* OrderService._record_status_change *)
RecordStatusChange(s, order_id, from_status, to_status, changed_by, notes) ==
    [s EXCEPT !.history = Append(@,
        [order_id |-> order_id, from_status |-> from_status,
         to_status |-> to_status, changed_by |-> changed_by, notes |-> notes])]

(* OrderService._create_order_item *)
CreateOrderItemLivePrice(cart_item) ==
    [product_id |-> cart_item.product_id, variation_id |-> cart_item.variation_id,
     quantity |-> cart_item.quantity,
     price |-> ProductPrice(cart_item.product_id)]

CreateOrderItem(cart_item) ==
    [product_id |-> cart_item.product_id, variation_id |-> cart_item.variation_id,
     quantity |-> cart_item.quantity,
     price |-> IF cart_item.unit_price # 0 THEN cart_item.unit_price
               ELSE ProductPrice(cart_item.product_id)]

(* the loop of create_order_from_cart: one OrderItem and one reservation   *)
(* per cart line, stopping at the first line that raises                   *)
RECURSIVE ReserveCartItems(_, _, _)
ReserveCartItems(s, cart_items, order_id) ==
    IF cart_items = <<>> \/ Failed(s) THEN s
    ELSE LET cart_item == Head(cart_items)
             s1 == [s EXCEPT !.orders[order_id].items =
                                 Append(@, CreateOrderItem(cart_item))]
         IN ReserveCartItems(ReserveStock(s1, cart_item, order_id),
                             Tail(cart_items), order_id)

(* the except clause of both creation paths: rollback, then a 500 *)
FailedToCreate(before, s) ==
    [Rollback(before, s) EXCEPT !.code = 500, !.wrapped = TRUE, !.order_id = NoneId]

(* OrderService.create_order_from_cart, up to the try block: the cart, the
   pre-check and the address *)
CartOrderPrecheck(db, act, user_id, address_found) ==
    LET cart == GetCart(db, user_id, NoneId) IN
    IF cart = NoneId \/ db.carts[cart].items = <<>>
    THEN Raise(db, "EmptyCart", 400)
    ELSE IF ValidateCartForCheckout(db, act, db.carts[cart]) # <<>>
    THEN Raise([db EXCEPT !.issues = ValidateCartForCheckout(db, act, db.carts[cart])],
               "ValidationFailed", 400)
    ELSE IF ~address_found
    THEN Raise(db, "NotFound", 404)
    ELSE [db EXCEPT !.cart_id = cart]

(* OrderService._calculate_order_totals *)
CalculateOrderTotals(cart_items) ==
    LET subtotal == Subtotal(cart_items)
        tax      == TaxOn(subtotal)
        shipping == IF subtotal < FREE_SHIPPING_THRESHOLD THEN SHIPPING_COST ELSE 0
    IN [subtotal |-> subtotal, tax |-> tax, shipping |-> shipping,
        total |-> subtotal + tax + shipping]

(* OrderService.create_order_from_cart, the try block; totals are the      *)
(* amounts stored in the order's total_amount, shipping_cost, tax_amount   *)
CartOrderTransaction(db, user_id, cart) ==
    LET order_id == Len(db.orders) + 1
        priced == [db EXCEPT !.totals = CalculateOrderTotals(db.carts[cart].items)]
        s0 == InsertOrder(priced, NewOrder(user_id, db.generated))
        s1 == ReserveCartItems(s0, db.carts[cart].items, order_id)
    IN IF Failed(s1)
       THEN FailedToCreate(db, s1)
       ELSE Commit(MarkCartConverted(
              RecordStatusChange(s1, order_id, NoStatus, "pending",
                                 user_id, NoNotes), cart))

(* OrderService.create_order_from_cart *)
CreateOrderFromCartOp(db, act, user_id, address_found) ==
    LET pre == CartOrderPrecheck(db, act, user_id, address_found) IN
    IF Failed(pre) THEN pre
    ELSE CartOrderTransaction(pre, user_id, pre.cart_id)

(* OrderService._validate_and_calculate_items: the first error, "" if none *)
RECURSIVE ValidateItems(_, _, _)
ValidateItems(db, act, items) ==
    IF items = <<>> THEN db
    ELSE LET item == Head(items) IN
         IF item.product_id \notin Products
         THEN Raise(db, "NotFound", 404)
         ELSE IF ~act[item.product_id]
         THEN Raise(db, "Unavailable", 400)
         ELSE IF db.stock[item.product_id] < item.quantity
         THEN Raise(db, "InsufficientStock", 400)
         ELSE ValidateItems(db, act, Tail(items))

(* the loop of create_guest_order *)
RECURSIVE ReserveGuestItems(_, _, _)
ReserveGuestItems(s, items, order_id) ==
    IF items = <<>> \/ Failed(s) THEN s
    ELSE LET item_data == Head(items)
             s1 == [s EXCEPT !.orders[order_id].items = Append(@,
                       [product_id |-> item_data.product_id,
                        variation_id |-> item_data.variation_id,
                        quantity |-> item_data.quantity,
                        price |-> ProductPrice(item_data.product_id)])]
         IN ReserveGuestItems(
               ReserveStockDirect(s1, item_data.product_id,
                                  item_data.quantity, order_id),
               Tail(items), order_id)

(* OrderService.create_guest_order, the try block *)
GuestOrderTransaction(db, items) ==
    LET order_id == Len(db.orders) + 1
        s0 == InsertOrder(db, NewOrder(NoneId, db.generated))
        s1 == ReserveGuestItems(s0, items, order_id)
    IN IF Failed(s1)
       THEN FailedToCreate(db, s1)
       ELSE Commit(RecordStatusChange(s1, order_id, NoStatus, "pending",
                                      NoneId, NoNotes))

(* OrderService.create_guest_order *)
CreateGuestOrderOp(db, act, items) ==
    LET v == ValidateItems(db, act, items) IN
    IF Failed(v) THEN v
    ELSE GuestOrderTransaction(db, items)

(* OrderService.update_order_status *)
UpdateOrderStatusOp(db, order_id, new_status, admin_id, notes) ==
    IF order_id \notin Indices(db.orders)
    THEN Raise(db, "NotFound", 404)
    ELSE
      LET old_status == db.orders[order_id].status
          s0 == [db EXCEPT !.order_id = order_id]
          s1 == [s0 EXCEPT !.orders[order_id].status = new_status]
          \* order.admin_notes = notes if notes else order.admin_notes
          s2 == IF notes = NoNotes /\ ~CanRead("admin_notes")
                THEN Raise(s1, "AttributeError", 500)
                ELSE SetUnmapped(s1, "admin_notes")
          s3 == IF Failed(s2) THEN s2
                ELSE IF new_status = "shipped" THEN SetUnmapped(s2, "shipped_at")
                ELSE IF new_status = "delivered" THEN SetUnmapped(s2, "delivered_at")
                ELSE s2
      IN IF new_status \notin ValidStatusTransitions(old_status)
         THEN Raise(s0, "InvalidTransition", 400)
         ELSE IF Failed(s3) THEN s3
         ELSE Commit(RecordStatusChange(s3, order_id, old_status, new_status,
                                        admin_id, notes))

(* OrderService.update_payment_status *)
UpdatePaymentStatusOp(db, order_id, payment_status, transaction_id, admin_id) ==
    IF order_id \notin Indices(db.orders)
    THEN Raise(db, "NotFound", 404)
    ELSE
      LET s1 == [db EXCEPT !.orders[order_id].payment_status = payment_status,
                           !.order_id = order_id]
          s2 == IF transaction_id # ""
                THEN SetUnmapped(s1, "payment_transaction_id")
                ELSE s1
      IN IF Failed(s2) THEN s2
         ELSE IF payment_status = "paid" /\ s2.orders[order_id].status = "pending"
         THEN LET s3 == UpdateOrderStatusOp(s2, order_id, "confirmed",
                                            admin_id, NoNotes)
              IN IF Failed(s3) THEN s3 ELSE Commit(s3)
         ELSE Commit(s2)

(* the release loop of cancel_order *)
RECURSIVE ReleaseItemsAndDelete(_, _, _)
ReleaseItemsAndDelete(s, items, order_id) ==
    IF items = <<>> THEN [s EXCEPT !.orders[order_id].items = <<>>]
    ELSE ReleaseItemsAndDelete(ReleaseStock(s, Head(items).product_id,
                                            Head(items).quantity, order_id),
                               Tail(items), order_id)

RECURSIVE ReleaseItems(_, _, _)
ReleaseItems(s, items, order_id) ==
    IF items = <<>> THEN s
    ELSE ReleaseItems(ReleaseStock(s, Head(items).product_id,
                                   Head(items).quantity, order_id),
                      Tail(items), order_id)

(* OrderService.cancel_order; "aged" says that more than                  *)
(* ORDER_CANCELLATION_WINDOW_HOURS have passed since created_at           *)
CancelOrderOpWindowForAll(db, order_id, user_id, reason, is_admin) ==
    IF order_id \notin Indices(db.orders)
    THEN Raise(db, "NotFound", 404)
    ELSE
      LET order == db.orders[order_id]
          s0 == [db EXCEPT !.order_id = order_id]
      IN
      IF ~is_admin /\ order.user_id # user_id
      THEN Raise(s0, "Forbidden", 403)
      ELSE IF ~IsCancellable(order)
      THEN Raise(s0, "NotCancellable", 400)
      ELSE IF order.aged
      THEN Raise(s0, "WindowExpired", 400)
      ELSE
        LET s1 == ReleaseItems(s0, order.items, order_id)
            s2 == [s1 EXCEPT !.orders[order_id].status = "cancelled"]
            s3 == SetUnmapped(SetUnmapped(SetUnmapped(s2,
                     "cancelled_at"), "cancelled_by"), "cancellation_reason")
        IN IF Failed(s3) THEN s3
           ELSE Commit(RecordStatusChange(s3, order_id, order.status,
                                          "cancelled", user_id, reason))

CancelOrderOpGuestOpen(db, order_id, user_id, reason, is_admin) ==
    IF order_id \notin Indices(db.orders)
    THEN Raise(db, "NotFound", 404)
    ELSE
      LET order == db.orders[order_id]
          s0 == [db EXCEPT !.order_id = order_id]
      IN
      IF ~is_admin /\ order.user_id # user_id /\ order.user_id # NoneId
      THEN Raise(s0, "Forbidden", 403)
      ELSE IF ~IsCancellable(order)
      THEN Raise(s0, "NotCancellable", 400)
      ELSE IF ~is_admin /\ order.aged
      THEN Raise(s0, "WindowExpired", 400)
      ELSE
        LET s1 == ReleaseItems(s0, order.items, order_id)
            s2 == [s1 EXCEPT !.orders[order_id].status = "cancelled"]
            s3 == SetUnmapped(SetUnmapped(SetUnmapped(s2,
                     "cancelled_at"), "cancelled_by"), "cancellation_reason")
        IN IF Failed(s3) THEN s3
           ELSE Commit(RecordStatusChange(s3, order_id, order.status,
                                          "cancelled", user_id, reason))

CancelOrderOp(db, order_id, user_id, reason, is_admin) ==
    IF order_id \notin Indices(db.orders)
    THEN Raise(db, "NotFound", 404)
    ELSE
      LET order == db.orders[order_id]
          s0 == [db EXCEPT !.order_id = order_id]
      IN
      IF ~is_admin /\ order.user_id # user_id
      THEN Raise(s0, "Forbidden", 403)
      ELSE IF ~IsCancellable(order)
      THEN Raise(s0, "NotCancellable", 400)
      ELSE IF ~is_admin /\ order.aged
      THEN Raise(s0, "WindowExpired", 400)
      ELSE
        LET s1 == ReleaseItems(s0, order.items, order_id)
            s2 == [s1 EXCEPT !.orders[order_id].status = "cancelled"]
            s3 == SetUnmapped(SetUnmapped(SetUnmapped(s2,
                     "cancelled_at"), "cancelled_by"), "cancellation_reason")
        IN IF Failed(s3) THEN s3
           ELSE Commit(RecordStatusChange(s3, order_id, order.status,
                                          "cancelled", user_id, reason))

(* OrderService.add_tracking_info *)
AddTrackingInfoOp(db, order_id, tracking_number, carrier, admin_id) ==
    IF order_id \notin Indices(db.orders)
    THEN Raise(db, "NotFound", 404)
    ELSE
      LET s1 == [db EXCEPT !.orders[order_id].tracking_number = tracking_number,
                           !.order_id = order_id]
          s2 == SetUnmapped(s1, "shipping_carrier")
      IN IF Failed(s2) THEN s2
         ELSE IF s2.orders[order_id].status \in {"pending", "confirmed", "processing"}
         THEN LET s3 == UpdateOrderStatusOp(s2, order_id, "shipped",
                                            admin_id, NoNotes)
              IN IF Failed(s3) THEN s3 ELSE Commit(s3)
         ELSE Commit(s2)

(* ============================ admin routes ============================ *)
(* app/routers/admin.py update_admin_order_status: any status string *)
AdminRouterUpdateStatusOp(db, order_id, new_status) ==
    IF order_id \notin Indices(db.orders)
    THEN Raise(db, "NotFound", 404)
    ELSE Commit([db EXCEPT !.orders[order_id].status = new_status,
                           !.order_id = order_id])

(* app/routers/admin.py cancel_admin_order *)
AdminRouterCancelOp(db, order_id) ==
    IF order_id \notin Indices(db.orders)
    THEN Raise(db, "NotFound", 404)
    ELSE IF db.orders[order_id].status = "cancelled"
    THEN Raise([db EXCEPT !.order_id = order_id], "AlreadyCancelled", 400)
    ELSE IF db.orders[order_id].status \in {"delivered", "completed"}
    THEN Raise([db EXCEPT !.order_id = order_id], "NotCancellable", 400)
    ELSE Commit([db EXCEPT !.orders[order_id].status = "cancelled",
                           !.order_id = order_id])

(* the restore loop of app/api/routes/admin.py update_order_status *)
RECURSIVE AdminRestoreItems(_, _, _, _)
AdminRestoreItems(s, items, order_id, admin_id) ==
    IF items = <<>> THEN s
    ELSE LET item == Head(items)
             s1 == IF item.product_id \in Products
                   THEN [s EXCEPT
                           !.stock[item.product_id] = @ + item.quantity,
                           !.ledger = Append(@, LogEntry(item.product_id,
                                         item.quantity,
                                         s.stock[item.product_id] + item.quantity,
                                         "admin_order_cancelled", order_id, admin_id))]
                   ELSE s
         IN AdminRestoreItems(s1, Tail(items), order_id, admin_id)

(* app/api/routes/admin.py update_order_status *)
AdminApiUpdateStatusOp(db, order_id, new_status, admin_id) ==
    IF new_status \notin {"pending", "processing", "shipped", "delivered", "cancelled"}
    THEN Raise(db, "InvalidStatus", 400)
    ELSE IF order_id \notin Indices(db.orders)
    THEN Raise(db, "NotFound", 404)
    ELSE
      LET old_status == db.orders[order_id].status
          s1 == [db EXCEPT !.orders[order_id].status = new_status,
                           !.order_id = order_id]
      IN IF new_status = "cancelled" /\ old_status # "cancelled"
         THEN Commit(AdminRestoreItems(s1, db.orders[order_id].items,
                                       order_id, admin_id))
         ELSE Commit(s1)

(* ===================== app/api/routes/orders.py ====================== *)
(* create_order, the first loop: every item's product is looked up, its
   stock compared and reduced; the item is kept with the product's price *)
RECURSIVE LegacyTakeItems(_, _)
LegacyTakeItems(s, items) ==
    IF items = <<>> \/ Failed(s) THEN s
    ELSE LET item == Head(items) IN
         IF item.product_id \notin Products
         THEN Raise(s, "NotFound", 404)
         ELSE IF s.stock[item.product_id] < item.quantity
         THEN Raise(s, "InsufficientStock", 400)
         ELSE LegacyTakeItems([s EXCEPT !.stock[item.product_id] = @ - item.quantity],
                              Tail(items))

(* create_order, the second loop: OrderItem(order_id, **item_data) *)
LegacyOrderItems(items) ==
    [k \in Indices(items) |->
        [product_id |-> items[k].product_id, variation_id |-> items[k].variation_id,
         quantity |-> items[k].quantity, price |-> ProductPrice(items[k].product_id)]]

(* create_order *)
LegacyCreateOrderOp(db, user_id, address_found, items) ==
    IF ~address_found
    THEN Raise(db, "NotFound", 404)
    ELSE
      LET s1 == LegacyTakeItems(db, items)
          s2 == InsertOrder(s1, NewOrder(user_id, db.generated))
          s3 == [s2 EXCEPT !.orders[s2.order_id].items = LegacyOrderItems(items)]
          \* db.query(CartItem).filter(CartItem.user_id == current_user.id).delete()
          s4 == [s3 EXCEPT !.carts = [c \in Indices(@) |->
                                        IF @[c].user_id = user_id
                                        THEN [@[c] EXCEPT !.items = <<>>]
                                        ELSE @[c]]]
      IN IF Failed(s1) THEN s1
         ELSE IF Failed(s2) THEN s2
         ELSE Commit(s4)

(* cancel_order, the restore loop *)
RECURSIVE LegacyRestoreItems(_, _)
LegacyRestoreItems(s, items) ==
    IF items = <<>> THEN s
    ELSE LegacyRestoreItems(
           IF Head(items).product_id \in Products
           THEN [s EXCEPT !.stock[Head(items).product_id] = @ + Head(items).quantity]
           ELSE s,
           Tail(items))

(* cancel_order *)
LegacyCancelOrderOp(db, order_id) ==
    IF order_id \notin Indices(db.orders)
    THEN Raise(db, "NotFound", 404)
    ELSE IF db.orders[order_id].status \in {"shipped", "delivered"}
    THEN Raise([db EXCEPT !.order_id = order_id], "NotCancellable", 400)
    ELSE Commit([LegacyRestoreItems(db, db.orders[order_id].items)
                   EXCEPT !.orders[order_id].status = "cancelled",
                          !.order_id = order_id])


Init ==
    /\ stock    = [p \in Products |-> InitStock]
    /\ active   = [p \in Products |-> TRUE]
    /\ price    = [p \in Products |-> 100]
    /\ ledger   = <<>>
    /\ orders   = <<>>
    /\ history  = <<>>
    /\ carts    = <<>>
    /\ response = [op |-> "none", ok |-> TRUE, err |-> "", code |-> 200,
                   wrapped |-> FALSE, order_id |-> NoneId]
    /\ procs    = [pr \in Procs |-> [pc |-> "idle", op |-> "none", user_id |-> NoneId,
                                  session_id |-> NoneId, cart |-> NoneId,
                                  seen_stock |-> [p \in Products |-> 0],
                                  seen_items |-> <<>>, err |-> ""]]

(* ============================== actions =============================== *)
(* One request: the handler h runs on the database; what it committed is   *)
(* persisted, the response is recorded.                                    *)
Handle(op, s, args) ==
    /\ Len(s.orders) <= MaxOrders
    /\ Len(s.carts) <= MaxCarts
    /\ Len(s.history) <= MaxHistory
    /\ Len(s.ledger) <= MaxLedger
    /\ Persist(Outcome(DB, s))
    /\ Respond(op, s, args)
    /\ UNCHANGED <<active, price, procs>>

Quantities == {1}

GuestItem == [product_id : CoreProducts, variation_id : {NoneId}, quantity : Quantities]

GuestItemLists ==
    UNION {[1..n -> GuestItem] : n \in {1, 2}}

SingleItemLists == [1..1 -> GuestItem]

ManualAdjustments(l) == Cardinality({i \in Indices(l) : l[i].reason = "manual"})

GetOrCreateCart(user_id) ==
    Handle("get_or_create_cart", GetOrCreateCartOp(DB, user_id, NoneId), <<user_id>>)

AddItem(c, product_id, variation_id, quantity) ==
    /\ c \in Indices(carts)
    /\ carts[c].status = "active"
    /\ Handle("add_item", AddItemOp(DB, active, c, product_id, variation_id, quantity),
              <<c, product_id, variation_id, quantity>>)

CreateOrderFromCart(user_id, address_found) ==
    Handle("create_order_from_cart",
           CreateOrderFromCartOp(DB, active, user_id, address_found),
           <<user_id>>)

CreateGuestOrder(items) ==
    Handle("create_guest_order", CreateGuestOrderOp(DB, active, items), items)

UpdateOrderStatus(order_id, new_status, notes) ==
    Handle("update_order_status",
           UpdateOrderStatusOp(DB, order_id, new_status, AdminId, notes),
           <<order_id, new_status, notes>>)

UpdatePaymentStatus(order_id, payment_status, transaction_id) ==
    Handle("update_payment_status",
           UpdatePaymentStatusOp(DB, order_id, payment_status, transaction_id, AdminId),
           <<order_id, payment_status, transaction_id>>)

CancelOrder(order_id, user_id, is_admin) ==
    Handle("cancel_order", CancelOrderOp(DB, order_id, user_id, "reason", is_admin),
           <<order_id, user_id, is_admin>>)

AddTrackingInfo(order_id) ==
    Handle("add_tracking_info", AddTrackingInfoOp(DB, order_id, "TRK", "DHL", AdminId),
           <<order_id>>)

UpdateStock(product_id, change_quantity) ==
    /\ ManualAdjustments(ledger) < MaxAdjust
    /\ Handle("update_stock",
              UpdateStockOp(DB, product_id, change_quantity, "manual", AdminId),
              <<product_id, change_quantity>>)

(* time passes: the cart's expires_at is now in the past *)
CartExpires(c) ==
    /\ c \in Indices(carts)
    /\ carts[c].status = "active"
    /\ ~carts[c].expired
    /\ carts' = [carts EXCEPT ![c].expired = TRUE]
    /\ UNCHANGED <<stock, active, price, ledger, orders, history, response, procs>>

(* time passes: the order is now older than the cancellation window *)
OrderAges(order_id) ==
    /\ order_id \in Indices(orders)
    /\ ~orders[order_id].aged
    /\ orders' = [orders EXCEPT ![order_id].aged = TRUE]
    /\ UNCHANGED <<stock, active, price, ledger, carts, history, response, procs>>

(* the catalogue changes the price of a product *)
ChangePrice(product_id, new_price) ==
    /\ price[product_id] # new_price
    /\ price' = [price EXCEPT ![product_id] = new_price]
    /\ UNCHANGED <<stock, active, ledger, orders, carts, history, response, procs>>

(* the catalogue withdraws a product *)
DeactivateProduct(product_id) ==
    /\ active[product_id]
    /\ active' = [active EXCEPT ![product_id] = FALSE]
    /\ UNCHANGED <<stock, price, ledger, orders, carts, history, response, procs>>

OrderIds == 1..MaxOrders

PaymentInputs == {"paid", "refunded"}

CartActions ==
    \/ \E u \in Shoppers : GetOrCreateCart(u)
    \/ \E c \in 1..MaxCarts, p \in CoreProducts, v \in {NoneId} \cup Variations,
          q \in Quantities : AddItem(c, p, v, q)

CreateActions ==
    \/ \E u \in Users, a \in BOOLEAN : CreateOrderFromCart(u, a)
    \/ \E items \in GuestItemLists : CreateGuestOrder(items)

CancelActions ==
    \/ \E o \in OrderIds, u \in Users : CancelOrder(o, u, FALSE)
    \/ \E o \in OrderIds : CancelOrder(o, AdminId, TRUE)

StockActions ==
    \E p \in CoreProducts, d \in {-(InitStock + MaxAdjust + 1), -1, 1} : UpdateStock(p, d)

StatusActions ==
    \/ \E o \in OrderIds, st \in OrderStatus, n \in {NoNotes, "note"} :
          UpdateOrderStatus(o, st, n)
    \/ \E o \in OrderIds, ps \in PaymentInputs, tx \in {"", "TX"} :
          UpdatePaymentStatus(o, ps, tx)
    \/ \E o \in OrderIds : AddTrackingInfo(o)

(* what happens outside the handlers: time passes, the catalogue changes *)
EnvActions ==
    \/ \E c \in 1..MaxCarts : CartExpires(c)
    \/ \E o \in OrderIds : OrderAges(o)
    \/ \E p \in CoreProducts : DeactivateProduct(p)

Next ==
    \/ CartActions
    \/ CreateActions
    \/ CancelActions
    \/ StockActions

Spec == Init /\ [][Next]_vars

(* carts and orders while time passes and the catalogue changes *)
NextEnv ==
    \/ CartActions
    \/ CreateActions
    \/ CancelActions
    \/ EnvActions

SpecEnv == Init /\ [][NextEnv]_vars

NextStatus ==
    \/ \E items \in SingleItemLists : CreateGuestOrder(items)
    \/ CancelActions
    \/ StatusActions

SpecStatus == Init /\ [][NextStatus]_vars

AdminRouterUpdateStatus(order_id, new_status) ==
    Handle("admin_router_update_status",
           AdminRouterUpdateStatusOp(DB, order_id, new_status),
           <<order_id, new_status>>)

AdminRouterCancel(order_id) ==
    Handle("admin_router_cancel", AdminRouterCancelOp(DB, order_id), <<order_id>>)

AdminApiUpdateStatus(order_id, new_status) ==
    Handle("admin_api_update_status",
           AdminApiUpdateStatusOp(DB, order_id, new_status, AdminId),
           <<order_id, new_status>>)

AdminRouterActions ==
    \/ \E o \in OrderIds, st \in OrderStatus : AdminRouterUpdateStatus(o, st)
    \/ \E o \in OrderIds : AdminRouterCancel(o)

AdminApiActions ==
    \E o \in OrderIds, st \in OrderStatus : AdminApiUpdateStatus(o, st)

(* the statuses no OrderService operation reaches (shipped_at and
   delivered_at cannot be assigned): orders get them through the admin route *)
FulfilmentStatuses == {"shipped", "out_for_delivery", "delivered", "refunded"}

NextRoutes ==
    \/ \E items \in SingleItemLists : CreateGuestOrder(items)
    \/ CancelActions
    \/ StatusActions
    \/ \E o \in OrderIds, st \in FulfilmentStatuses : AdminRouterUpdateStatus(o, st)

SpecRoutes == Init /\ [][NextRoutes]_vars

(* every handler that sets Order.status outside OrderService *)
NextAdmin ==
    \/ \E items \in SingleItemLists : CreateGuestOrder(items)
    \/ CancelActions
    \/ AdminRouterActions
    \/ AdminApiActions

SpecAdmin == Init /\ [][NextAdmin]_vars

(* statuses the admin router puts an order in before a cancellation: the
   other two cancellable statuses, and two that are not *)
StatusesBeforeCancel == {"confirmed", "processing", "on_hold", "shipped"}

(* cancellation of cart and guest orders, of several statuses and ages *)
NextCancel ==
    \/ \E u \in Shoppers : GetOrCreateCart(u)
    \/ \E c \in 1..MaxCarts, p \in CoreProducts, q \in Quantities :
          AddItem(c, p, NoneId, q)
    \/ \E u \in Shoppers : CreateOrderFromCart(u, TRUE)
    \/ \E items \in SingleItemLists : CreateGuestOrder(items)
    \/ CancelActions
    \/ \E o \in OrderIds, st \in StatusesBeforeCancel : AdminRouterUpdateStatus(o, st)
    \/ \E o \in OrderIds : OrderAges(o)

SpecCancel == Init /\ [][NextCancel]_vars

(* everything that happens to an order, its products and the carts after
   the order was created *)
NextSnapshot ==
    \/ \E u \in Shoppers : GetOrCreateCart(u)
    \/ \E c \in 1..MaxCarts, p \in CoreProducts, q \in Quantities :
          AddItem(c, p, NoneId, q)
    \/ \E u \in Shoppers : CreateOrderFromCart(u, TRUE)
    \/ \E items \in SingleItemLists : CreateGuestOrder(items)
    \/ \E p \in CoreProducts, v \in Prices : ChangePrice(p, v)
    \/ \E o \in OrderIds : UpdateOrderStatus(o, "confirmed", "note")
    \/ \E o \in OrderIds : UpdatePaymentStatus(o, "paid", "")
    \/ \E o \in OrderIds : AddTrackingInfo(o)
    \/ \E o \in OrderIds : CancelOrder(o, AdminId, TRUE)
    \/ \E p \in CoreProducts : UpdateStock(p, 1)

SpecSnapshot == Init /\ [][NextSnapshot]_vars

(* what generate_order_number can return: the random suffix is drawn
   anew in every request, whatever numbers are in use *)
OrderNumbers == {1, 2}

CreateGuestOrderNumbered(items, order_number) ==
    Handle("create_guest_order",
           CreateGuestOrderOp([DB EXCEPT !.generated = order_number], active, items),
           items)

CreateOrderFromCartNumbered(user_id, order_number) ==
    Handle("create_order_from_cart",
           CreateOrderFromCartOp([DB EXCEPT !.generated = order_number], active,
                                 user_id, TRUE),
           <<user_id>>)

(* order creation with every outcome of the order number generator *)
NextNumbers ==
    \/ \E u \in Shoppers : GetOrCreateCart(u)
    \/ \E c \in 1..MaxCarts, p \in CoreProducts, q \in Quantities :
          AddItem(c, p, NoneId, q)
    \/ \E u \in Shoppers, n \in OrderNumbers : CreateOrderFromCartNumbered(u, n)
    \/ \E items \in SingleItemLists, n \in OrderNumbers :
          CreateGuestOrderNumbered(items, n)
    \/ CancelActions
    \/ StockActions

SpecNumbers == Init /\ [][NextNumbers]_vars

LegacyCreateOrder(user_id, address_found, items) ==
    Handle("legacy_create_order",
           LegacyCreateOrderOp(DB, user_id, address_found, items), items)

(* a cancelled order can be cancelled again and again: the restored stock
   is capped to keep the state space finite *)
LegacyCancelOrder(order_id) ==
    /\ \A p \in Products : stock[p] <= InitStock + MaxAdjust
    /\ Handle("legacy_cancel_order", LegacyCancelOrderOp(DB, order_id), <<order_id>>)

(* every handler that changes Product.stock for an order *)
NextLegacy ==
    \/ \E u \in Shoppers : GetOrCreateCart(u)
    \/ \E c \in 1..MaxCarts, p \in CoreProducts, q \in Quantities :
          AddItem(c, p, NoneId, q)
    \/ \E u \in Shoppers, a \in BOOLEAN, items \in GuestItemLists :
          LegacyCreateOrder(u, a, items)
    \/ \E o \in OrderIds : LegacyCancelOrder(o)
    \/ \E items \in SingleItemLists : CreateGuestOrder(items)
    \/ \E o \in OrderIds, st \in {"shipped", "cancelled"} : AdminApiUpdateStatus(o, st)

SpecLegacy == Init /\ [][NextLegacy]_vars

(* checkout of a cart over the whole catalogue, while prices change *)
NextCheckout ==
    \/ \E u \in Shoppers : GetOrCreateCart(u)
    \/ \E c \in 1..MaxCarts, p \in Products, q \in Quantities :
          AddItem(c, p, NoneId, q)
    \/ \E u \in Shoppers : CreateOrderFromCart(u, TRUE)
    \/ \E p \in Products, v \in Prices : ChangePrice(p, v)

SpecCheckout == Init /\ [][NextCheckout]_vars

(* ====================== concurrent order creation ===================== *)
(* Request handlers run concurrently, each in its own session and its own  *)
(* transaction.  No query of the creation paths locks a row and the engine *)
(* is created without an isolation level (app/db/session.py), so a handler *)
(* first loads the Product rows (and the cart) it needs, keeps them in its *)
(* session, and at commit writes the stock it computed from the values it  *)
(* loaded; other handlers may commit between the two steps.                *)
OneUnit == <<[product_id |-> 1, variation_id |-> NoneId, quantity |-> 1]>>

Idle == [pc |-> "idle", op |-> "none", user_id |-> NoneId,
         session_id |-> NoneId, cart |-> NoneId,
         seen_stock |-> [p \in Products |-> 0], seen_items |-> <<>>,
         err |-> ""]

(* the database as the session of handler h sees it: the rows it loaded    *)
(* are those of its identity map, everything else is read at commit        *)
View(h) ==
    [DB EXCEPT !.stock = h.seen_stock,
               !.carts = IF h.cart = NoneId THEN @
                         ELSE [@ EXCEPT ![h.cart].items = h.seen_items]]

(* the flush at commit: UPDATE of the rows the session changed, INSERT of  *)
(* the rows it added                                                       *)
Flush(h, s) ==
    /\ stock' = [p \in Products |->
                    IF s.stock[p] # h.seen_stock[p] THEN s.stock[p] ELSE stock[p]]
    /\ ledger'  = s.ledger
    /\ orders'  = s.orders
    /\ history' = s.history
    /\ carts'   = IF h.cart = NoneId THEN carts
                  ELSE [carts EXCEPT ![h.cart].status = s.carts[h.cart].status]

(* create_guest_order, lines 146: the items are validated against the      *)
(* Product rows loaded now                                                 *)
BeginGuestOrder(pr) ==
    /\ procs[pr].pc = "idle"
    /\ LET v == ValidateItems(DB, active, OneUnit) IN
       procs' = [procs EXCEPT ![pr] =
                   [pc |-> IF Failed(v) THEN "done" ELSE "loaded",
                    op |-> "create_guest_order", user_id |-> NoneId,
                    session_id |-> NoneId, cart |-> NoneId, seen_stock |-> stock,
                    seen_items |-> OneUnit, err |-> v.err]]
    /\ UNCHANGED <<stock, active, price, ledger, orders, history, carts, response>>

(* create_order_from_cart, lines 69-89: the cart, its lines and their      *)
(* products are loaded and pre-checked                                     *)
BeginCartOrder(pr, user_id) ==
    /\ procs[pr].pc = "idle"
    /\ LET pre == CartOrderPrecheck(DB, active, user_id, TRUE) IN
       /\ ~Failed(pre)
       /\ carts[pre.cart_id].items =
             <<[product_id |-> 1, variation_id |-> NoneId, quantity |-> 1,
                unit_price |-> ProductPrice(1)]>>
       /\ procs' = [procs EXCEPT ![pr] =
                      [pc |-> "loaded", op |-> "create_order_from_cart",
                       user_id |-> user_id, session_id |-> NoneId,
                       cart |-> pre.cart_id, seen_stock |-> stock,
                       seen_items |-> carts[pre.cart_id].items, err |-> ""]]
    /\ UNCHANGED <<stock, active, price, ledger, orders, history, carts, response>>

(* the try block of either creation path, up to its commit or rollback *)
FinishOrder(pr) ==
    /\ procs[pr].pc = "loaded"
    /\ LET h == procs[pr]
           s == IF h.op = "create_guest_order"
                THEN GuestOrderTransaction(View(h), h.seen_items)
                ELSE CartOrderTransaction(View(h), h.user_id, h.cart)
       IN /\ IF Failed(s)
             THEN UNCHANGED dbvars
             ELSE Flush(h, s)
          /\ Respond(h.op, s, <<>>)
          /\ procs' = [procs EXCEPT ![pr].pc = "done", ![pr].err = s.err]
    /\ UNCHANGED <<active, price>>

(* carts holding one unit of product 1, filled before the checkouts *)
FillCart(user_id) ==
    /\ \A pr \in Procs : procs[pr].pc = "idle"
    /\ \/ GetOrCreateCart(user_id)
       \/ \E c \in Indices(carts) :
             /\ carts[c].user_id = user_id
             /\ carts[c].items = <<>>
             /\ AddItem(c, 1, NoneId, 1)

NextConc ==
    \/ \E u \in Users : FillCart(u)
    \/ \E pr \in Procs : BeginGuestOrder(pr)
    \/ \E pr \in Procs, u \in Users : BeginCartOrder(pr, u)
    \/ \E pr \in Procs : FinishOrder(pr)

SpecConc == Init /\ [][NextConc]_vars

(* ================== orders for a product variation =================== *)
(* One request, with room for MaxVariationOrders orders and carts.          *)
VariationRequest(op, s) ==
    /\ Len(s.orders) <= MaxVariationOrders
    /\ Len(s.carts) <= MaxVariationOrders
    /\ Len(s.ledger) <= MaxLedger
    /\ Persist(Outcome(DB, s))
    /\ Respond(op, s, <<>>)
    /\ UNCHANGED <<active, price, procs>>

(* a customer fills carts with the product or its variation and checks     *)
(* them out; an admin restocks the product and cancels orders              *)
NextVariation ==
    \/ \E u \in Shoppers :
          VariationRequest("get_or_create_cart", GetOrCreateCartOp(DB, u, NoneId))
    \/ \E c \in Indices(carts), v \in Variations \cup {NoneId} :
          /\ carts[c].status = "active"
          /\ VariationRequest("add_item",
                 AddItemOp(DB, active, c, VariationProduct(1), v, 1))
    \/ \E u \in Shoppers :
          VariationRequest("create_order_from_cart",
                           CreateOrderFromCartOp(DB, active, u, TRUE))
    \/ /\ ManualAdjustments(ledger) < MaxAdjust
       /\ VariationRequest("update_stock",
              UpdateStockOp(DB, VariationProduct(1), 1, "manual", AdminId))
    \/ \E o \in Indices(orders) :
          VariationRequest("cancel_order",
                           CancelOrderOp(DB, o, AdminId, "reason", TRUE))

SpecVariation == Init /\ [][NextVariation]_vars

(* ====================== concurrent cancellations ====================== *)
CancelCallers == {<<u, FALSE>> : u \in Shoppers} \cup {<<AdminId, TRUE>>}

(* cancel_order in two requests at once.  A request first loads the order   *)
(* and checks it (lines 364-387), then loads the Product rows of its items  *)
(* in _release_stock (line 647), and at its commit writes the stock it      *)
(* computed from the rows it loaded, the ledger rows, the status and the    *)
(* history row (lines 389-404).  No query locks a row.                      *)
BeginCancel(pr, order_id, user_id, is_admin) ==
    /\ procs[pr].pc = "idle"
    /\ order_id \in Indices(orders)
    /\ LET c == CancelOrderOp(DB, order_id, user_id, "reason", is_admin) IN
       procs' = [procs EXCEPT ![pr] =
                   [pc |-> IF Failed(c) THEN "done" ELSE "loaded",
                    op |-> "cancel_order", user_id |-> user_id,
                    session_id |-> NoneId, cart |-> NoneId,
                    seen_stock |-> [p \in Products |-> 0],
                    seen_items |-> orders[order_id].items, err |-> c.err,
                    order_id |-> order_id,
                    seen_status |-> orders[order_id].status]]
    /\ UNCHANGED <<stock, active, price, ledger, orders, history, carts, response>>

(* _release_stock: db.query(Product) reads the committed rows *)
LoadProductsToRelease(pr) ==
    /\ procs[pr].pc = "loaded"
    /\ procs[pr].op = "cancel_order"
    /\ procs' = [procs EXCEPT ![pr].pc = "released", ![pr].seen_stock = stock]
    /\ UNCHANGED <<stock, active, price, ledger, orders, history, carts, response>>

(* the order as the session of handler h holds it *)
ViewOrder(h) ==
    [View(h) EXCEPT !.orders[h.order_id].status = h.seen_status]

(* the rest of cancel_order on the loaded rows, and its commit *)
FinishCancel(pr) ==
    /\ procs[pr].pc = "released"
    /\ LET h == procs[pr]
           s == CancelOrderOp(ViewOrder(h), h.order_id, h.user_id, "reason",
                              h.user_id = AdminId)
       IN /\ Len(s.ledger) <= MaxLedger
          /\ IF Failed(s)
             THEN UNCHANGED dbvars
             ELSE Flush(h, s)
          /\ Respond(h.op, s, <<>>)
          /\ procs' = [procs EXCEPT ![pr].pc = "done", ![pr].err = s.err]
    /\ UNCHANGED <<active, price>>

NextCancelConc ==
    \/ \E u \in Shoppers : FillCart(u)
    \/ \E u \in Shoppers : CreateOrderFromCart(u, TRUE)
    \/ \E items \in SingleItemLists : CreateGuestOrder(items)
    \/ \E o \in OrderIds : OrderAges(o)
    \/ \E pr \in Procs, o \in OrderIds, c \in CancelCallers :
          BeginCancel(pr, o, c[1], c[2])
    \/ \E pr \in Procs : LoadProductsToRelease(pr)
    \/ \E pr \in Procs : FinishCancel(pr)

SpecCancelConc == Init /\ [][NextCancelConc]_vars

(* ======================== the cart operations ========================= *)
(* One request to the Cart Manager: as Handle, with the carts table capped *)
(* at MaxCartRows rows.                                                    *)
CartRequest(op, s) ==
    /\ Len(s.carts) <= MaxCartRows
    /\ Persist(Outcome(DB, s))
    /\ Respond(op, s, <<>>)
    /\ UNCHANGED <<active, price, procs>>

(* what a caller may pass for (user_id, session_id): each is optional *)
OwnerArguments == (Shoppers \cup {NoneId}) \X (SessionTokens \cup {NoneId})

GetOrCreateCartFor(user_id, session_id) ==
    CartRequest("get_or_create_cart", GetOrCreateCartOp(DB, user_id, session_id))

CartAddItem(c, product_id, variation_id, quantity) ==
    /\ c \in Indices(carts)
    /\ carts[c].status = "active"
    /\ CartRequest("add_item",
                   AddItemOp(DB, active, c, product_id, variation_id, quantity))

UpdateItemQuantity(c, item_id, quantity) ==
    /\ c \in Indices(carts)
    /\ carts[c].status = "active"
    /\ CartRequest("update_item_quantity",
                   UpdateItemQuantityOp(DB, c, item_id, quantity))

RemoveItem(c, item_id) ==
    /\ c \in Indices(carts)
    /\ carts[c].status = "active"
    /\ CartRequest("remove_item", RemoveItemOp(DB, c, item_id))

ClearCart(c) ==
    /\ c \in Indices(carts)
    /\ carts[c].status = "active"
    /\ CartRequest("clear_cart", ClearCartOp(DB, c))

MergeSessionCart(user_id, session_id) ==
    CartRequest("merge_session_cart",
                MergeSessionCartOp(DB, active, user_id, session_id))

(* the owners of carts: look-ups with every combination of arguments,      *)
(* carts that get a line, carts that expire                                *)
NextOwners ==
    \/ \E o \in OwnerArguments : GetOrCreateCartFor(o[1], o[2])
    \/ \E c \in Indices(carts) : CartAddItem(c, 1, NoneId, 1)
    \/ \E c \in Indices(carts) : CartExpires(c)

SpecOwners == Init /\ [][NextOwners]_vars

(* add_item with every kind of argument, on the carts of the shoppers,     *)
(* while products are withdrawn                                            *)
CartLines == {<<1, NoneId>>, <<1, 1>>, <<2, NoneId>>}

ItemArguments ==
    CartLines \cup {<<2, 1>>,          \* a variation of another product
                    <<3, NoneId>>}     \* no such product

CartQuantities == {1, 2, 10}          \* CartItemCreate.quantity: ge=1, le=10

NextAdd ==
    \/ \E u \in Shoppers : GetOrCreateCartFor(u, NoneId)
    \/ \E c \in Indices(carts), a \in ItemArguments, q \in CartQuantities :
          CartAddItem(c, a[1], a[2], q)
    \/ \E p \in Products : DeactivateProduct(p)

SpecAdd == Init /\ [][NextAdd]_vars

(* the lines of a cart: add_item and update_item_quantity, while the stock *)
(* and the price of product 1 change                                       *)
UpdateQuantities == {0, 1, 10, 11}    \* update_item_quantity(quantity: int)

ItemIds == {1, 2}

NextItems ==
    \/ \E u \in Shoppers : GetOrCreateCartFor(u, NoneId)
    \/ \E c \in Indices(carts), a \in CartLines, q \in CartQuantities :
          CartAddItem(c, a[1], a[2], q)
    \/ \E c \in Indices(carts), i \in ItemIds, q \in UpdateQuantities :
          UpdateItemQuantity(c, i, q)
    \/ UpdateStock(1, MAX_QUANTITY_PER_ITEM)
    \/ \E v \in Prices : ChangePrice(1, v)

SpecItems == Init /\ [][NextItems]_vars

(* the cached totals: every operation that changes the lines of a cart,   *)
(* with prices on both sides of the free-shipping threshold                *)
ThresholdPrices == {100, FREE_SHIPPING_THRESHOLD}

NextTotals ==
    \/ \E u \in Shoppers : GetOrCreateCartFor(u, NoneId)
    \/ \E c \in Indices(carts), a \in CartLines : CartAddItem(c, a[1], a[2], 1)
    \/ \E c \in Indices(carts), i \in ItemIds, q \in {0, 1} :
          UpdateItemQuantity(c, i, q)
    \/ \E c \in Indices(carts), i \in ItemIds : RemoveItem(c, i)
    \/ \E c \in Indices(carts) : ClearCart(c)
    \/ \E p \in Products, v \in ThresholdPrices : ChangePrice(p, v)

SpecTotals == Init /\ [][NextTotals]_vars

(* the summary of a cart is asked for between the operations above *)
GetCartSummary(c) ==
    /\ c \in Indices(carts)
    /\ CartRequest("get_cart_summary", GetCartSummaryOp(DB, c))

NextSummary ==
    \/ NextTotals
    \/ \E c \in Indices(carts) : GetCartSummary(c)

SpecSummary == Init /\ [][NextSummary]_vars

(* checkout of the carts above *)
NextOrderTotals ==
    \/ NextTotals
    \/ \E u \in Shoppers : CreateOrderFromCart(u, TRUE)

SpecOrderTotals == Init /\ [][NextOrderTotals]_vars

(* a visitor fills a session cart and logs in: the session cart is merged *)
(* into the user's cart, while products are withdrawn                      *)
NextMerge ==
    \/ \E u \in Shoppers : GetOrCreateCartFor(u, NoneId)
    \/ \E t \in SessionTokens : GetOrCreateCartFor(NoneId, t)
    \/ \E c \in Indices(carts), a \in CartLines : CartAddItem(c, a[1], a[2], 1)
    \/ \E c \in Indices(carts), i \in ItemIds, q \in {0, 1} :
          UpdateItemQuantity(c, i, q)
    \/ \E u \in Shoppers, t \in SessionTokens : MergeSessionCart(u, t)
    \/ \E p \in Products : DeactivateProduct(p)

SpecMerge == Init /\ [][NextMerge]_vars

(* checkouts of carts whose products were withdrawn or ran short since    *)
(* they were put in, and of customers without a cart                       *)
NextPrecheck ==
    \/ \E u \in Shoppers : GetOrCreateCartFor(u, NoneId)
    \/ \E c \in Indices(carts), a \in CartLines : CartAddItem(c, a[1], a[2], 1)
    \/ \E u \in Users : CreateOrderFromCart(u, TRUE)
    \/ \E p \in Products : DeactivateProduct(p)
    \/ \E p \in Products : UpdateStock(p, -1)

SpecPrecheck == Init /\ [][NextPrecheck]_vars

(* every operation of the Cart Manager, on the carts of a customer and of  *)
(* a session, while the stock of the product is adjusted                   *)
ValidateCart(c) ==
    /\ c \in Indices(carts)
    /\ CartRequest("validate_cart_for_checkout", ValidateCartOp(DB, active, c))

FrameLines == {<<1, NoneId>>, <<1, 1>>}

CartManagerActions ==
    \/ \E u \in Shoppers : GetOrCreateCartFor(u, NoneId)
    \/ \E k \in SessionTokens : GetOrCreateCartFor(NoneId, k)
    \/ \E c \in Indices(carts), a \in FrameLines : CartAddItem(c, a[1], a[2], 1)
    \/ \E c \in Indices(carts), i \in ItemIds, q \in {0, 1} :
          UpdateItemQuantity(c, i, q)
    \/ \E c \in Indices(carts) : RemoveItem(c, 1)
    \/ \E c \in Indices(carts) : ClearCart(c)
    \/ \E c \in Indices(carts) : ValidateCart(c)
    \/ \E u \in Shoppers, k \in SessionTokens : MergeSessionCart(u, k)

NextFrame ==
    \/ CartManagerActions
    \/ UpdateStock(1, -1)

SpecFrame == Init /\ [][NextFrame]_vars

(* ===================== concurrent cart look-ups ======================= *)
(* get_or_create_cart in two requests at once: each first runs its SELECT  *)
(* for the owner's ACTIVE cart (lines 52-67) and later commits what it     *)
(* decided on that answer (lines 69-98).  The carts table has a unique     *)
(* index on session_id only; nothing constrains (user_id, status).         *)
CartOwners == {<<u, NoneId>> : u \in Shoppers} \cup {<<NoneId, t>> : t \in SessionTokens}

BeginGetOrCreateCart(pr, user_id, session_id) ==
    /\ procs[pr].pc = "idle"
    /\ procs' = [procs EXCEPT ![pr] =
                   [Idle EXCEPT !.pc = "queried", !.op = "get_or_create_cart",
                                !.user_id = user_id, !.session_id = session_id,
                                !.cart = GetCart(DB, user_id, session_id)]]
    /\ UNCHANGED <<stock, active, price, ledger, orders, history, carts, response>>

FinishGetOrCreateCart(pr) ==
    /\ procs[pr].pc = "queried"
    /\ LET h == procs[pr]
           s == CartAfterQuery(DB, h.cart, h.user_id, h.session_id)
       IN /\ Len(s.carts) <= MaxCartRows
          /\ Persist(Outcome(DB, s))
          /\ Respond(h.op, s, <<>>)
          /\ procs' = [procs EXCEPT ![pr].pc = "done", ![pr].err = s.err]
    /\ UNCHANGED <<active, price>>

(* a finished request handler is free for the next request *)
NextRequest(pr) ==
    /\ procs[pr].pc = "done"
    /\ procs' = [procs EXCEPT ![pr] = Idle]
    /\ UNCHANGED <<stock, active, price, ledger, orders, history, carts, response>>

NextCartConc ==
    \/ \E pr \in Procs, o \in CartOwners : BeginGetOrCreateCart(pr, o[1], o[2])
    \/ \E pr \in Procs : FinishGetOrCreateCart(pr)
    \/ \E pr \in Procs : NextRequest(pr)
    \/ \E c \in Indices(carts) : CartExpires(c)

SpecCartConc == Init /\ [][NextCartConc]_vars

(* ============================== properties ============================ *)
RECURSIVE SumChanges(_, _)
SumChanges(l, p) ==
    IF l = <<>> THEN 0
    ELSE (IF Head(l).product_id = p THEN Head(l).change_quantity ELSE 0)
         + SumChanges(Tail(l), p)

(* the transition table of the order status machine, as the design states it *)
TransitionTable ==
    {<<"pending", "confirmed">>, <<"pending", "cancelled">>,
     <<"pending", "failed">>, <<"pending", "on_hold">>,
     <<"confirmed", "processing">>, <<"confirmed", "cancelled">>,
     <<"confirmed", "on_hold">>,
     <<"processing", "shipped">>, <<"processing", "cancelled">>,
     <<"processing", "on_hold">>,
     <<"shipped", "out_for_delivery">>, <<"shipped", "delivered">>,
     <<"out_for_delivery", "delivered">>,
     <<"delivered", "refunded">>,
     <<"on_hold", "pending">>, <<"on_hold", "processing">>,
     <<"on_hold", "cancelled">>,
     <<"failed", "pending">>}

OrderServiceOps ==
    {"update_order_status", "cancel_order", "update_payment_status",
     "add_tracking_info"}

(* ledger rows of an order *)
OrderEntries(o) == {i \in Indices(ledger) : ledger[i].order_id = o}

(* the release rows of an order, in insert order *)
Releases(o) ==
    SelectSeq(ledger, LAMBDA e : e.order_id = o /\ e.reason = "order_cancelled")

(* the release rows of order o are its items, one row per item *)
ReleasedOnce(o) ==
    /\ Len(Releases(o)) = Len(orders[o].items)
    /\ \A k \in Indices(orders[o].items) :
          /\ Releases(o)[k].product_id = orders[o].items[k].product_id
          /\ Releases(o)[k].change_quantity = orders[o].items[k].quantity

Succeeded == {pr \in Procs : procs[pr].pc = "done" /\ procs[pr].err = ""}

Refused ==
    {pr \in Procs : procs[pr].pc = "done" /\ procs[pr].err = "InsufficientStock"}

(* C1: when N concurrent attempts each ask for one unit of a product with
   stock S < N, exactly S commit an order, N - S are refused for lack of
   stock and the stock ends at 0. *)
NoOversell ==
    (/\ \A pr \in Procs : procs[pr].pc = "done"
     /\ NumProcs > InitStock)
    => /\ Cardinality(Succeeded) = InitStock
       /\ Cardinality(Refused) = NumProcs - InitStock
       /\ Len(orders) = InitStock
       /\ stock[1] = 0

(* C2: for every product, stock = baseline stock + the sum of change_quantity
   over the product's ledger rows, in every state reached by order creation,
   cancel_order and update_stock calls, successful or not. *)
LedgerConsistent ==
    \A p \in Products : stock[p] = InitStock + SumChanges(ledger, p)

(* a product with a reservation, a release and a manual adjustment logged *)
LedgerConsistentWitness ==
    \E p \in Products :
        \A r \in {"order_placed", "order_cancelled", "manual"} :
            \E i \in Indices(ledger) :
                ledger[i].product_id = p /\ ledger[i].reason = r

(* C3: stock is never negative; a reservation that finds qty > stock and a
   manual adjustment below zero are rejected and leave stock and ledger as
   they were. *)
StockNeverNegative ==
    /\ [](\A p \in Products : stock[p] >= 0)
    /\ [][response'.err \in {"InsufficientStock", "BelowZero"}
            => (stock' = stock /\ ledger' = ledger)]_vars

(* a reservation inside the order transaction was refused for lack of stock *)
StockNeverNegativeWitness ==
    /\ response.op = "create_guest_order"
    /\ response.err = "InsufficientStock"
    /\ response.wrapped
    /\ \E p \in Products : stock[p] > 0

CreateStep ==
    \/ \E u \in Shoppers, a \in BOOLEAN : CreateOrderFromCart(u, a)
    \/ \E items \in GuestItemLists : CreateGuestOrder(items)

(* C4: an order creation that fails leaves no order, item, history row or
   ledger row behind, every stock as it was and the cart active with its
   lines. *)
CreateAllOrNothing ==
    [][(CreateStep /\ ~response'.ok) => UNCHANGED dbvars]_vars

(* the second line of a cart could not be reserved after the first one was:
   two lines of one product, each within stock, together above it *)
CreateAllOrNothingWitness ==
    /\ response.op = "create_order_from_cart"
    /\ response.wrapped
    /\ response.err = "InsufficientStock"
    /\ \E c \in Indices(carts) :
          /\ carts[c].status = "active"
          /\ Len(carts[c].items) = 2
          /\ carts[c].items[1].product_id = carts[c].items[2].product_id

StockBeforeOrder(o, p) ==
    InitStock + SumChanges(SubSeq(ledger, 1, Min(OrderEntries(o)) - 1), p)

NoOtherStockOperation(o) ==
    \A i \in Min(OrderEntries(o))..Len(ledger) : ledger[i].order_id = o

(* C5: after a successful cancel_order the order's items are released one
   ledger row per item, same product and quantity, and if no other stock
   operation came between creation and cancellation every product's stock is
   what it was before the order was created. *)
CancelIsExactInverse ==
    (response.op = "cancel_order" /\ response.ok) =>
        /\ ReleasedOnce(response.order_id)
        /\ NoOtherStockOperation(response.order_id) =>
              \A p \in Products :
                  stock[p] = StockBeforeOrder(response.order_id, p)

(* a two-item order cancelled right after its creation *)
CancelIsExactInverseWitness ==
    /\ response.op = "cancel_order"
    /\ response.ok
    /\ Len(orders[response.order_id].items) = 2
    /\ NoOtherStockOperation(response.order_id)

(* C6: update_order_status with a (current, new) pair outside the transition
   table fails with InvalidTransition and changes neither the order (status,
   payment status, tracking fields) nor the status history. *)
InvalidTransitionRejected ==
    [][(response'.op = "update_order_status"
        /\ response'.order_id \in Indices(orders)) =>
          \/ /\ response'.err = "InvalidTransition"
             /\ orders' = orders
             /\ history' = history
          \/ \A st \in OrderStatus, n \in {NoNotes, "note"} :
                <<orders[response'.order_id].status, st>> \notin TransitionTable
                => ~UpdateOrderStatus(response'.order_id, st, n)]_vars

(* an update of a delivered order was refused *)
InvalidTransitionRejectedWitness ==
    /\ response.op = "update_order_status"
    /\ response.err = "InvalidTransition"
    /\ response.order_id \in Indices(orders)
    /\ orders[response.order_id].status = "delivered"

(* C7: every cancelled order has had each of its items released exactly
   once, whichever operation cancelled it. *)
CancelledOrdersReleased ==
    \A o \in Indices(orders) :
        orders[o].status = "cancelled" => ReleasedOnce(o)

(* C8: every change of an order's status is a pair of the transition table. *)
StatusChangesFollowTable ==
    [][\A o \in Indices(orders) :
          orders'[o].status # orders[o].status
          => <<orders[o].status, orders'[o].status>> \in TransitionTable]_vars

PositiveEntries(l, o) ==
    Cardinality({i \in Indices(l) : l[i].order_id = o /\ l[i].change_quantity > 0})

(* C9: no OrderService operation changes the status of a cancelled or
   refunded order or releases stock for it. *)
TerminalIsFinal ==
    [][response'.op \in OrderServiceOps =>
          \A o \in Indices(orders) :
              orders[o].status \in {"cancelled", "refunded"} =>
                  /\ orders'[o].status = orders[o].status
                  /\ PositiveEntries(ledger', o) = PositiveEntries(ledger, o)]_vars

(* an OrderService operation on a refunded order was refused *)
TerminalIsFinalWitness ==
    /\ response.op \in OrderServiceOps
    /\ ~response.ok
    /\ response.order_id \in Indices(orders)
    /\ orders[response.order_id].status = "refunded"

(* C10: an order that is committed starts pending, payment pending, with
   exactly one history row, (none -> pending). *)
OrdersStartPending ==
    [][Len(orders') > Len(orders) =>
          LET o == Len(orders')
              rows == {i \in Indices(history') : history'[i].order_id = o}
          IN /\ o = Len(orders) + 1
             /\ orders'[o].status = "pending"
             /\ orders'[o].payment_status = "pending"
             /\ Cardinality(rows) = 1
             /\ \A i \in rows : /\ history'[i].from_status = NoStatus
                                /\ history'[i].to_status = "pending"]_vars

(* a cart order has just been committed: its cart is converted *)
OrdersStartPendingWitness ==
    /\ response.op = "create_order_from_cart"
    /\ response.ok
    /\ response.order_id \in Indices(orders)
    /\ Len(orders[response.order_id].items) = 2
    /\ \E c \in Indices(carts) : carts[c].status = "converted"

(* quantity of product p over the lines of a cart or the items of an order *)
RECURSIVE SumQuantity(_, _)
SumQuantity(items, p) ==
    IF items = <<>> THEN 0
    ELSE (IF Head(items).product_id = p THEN Head(items).quantity ELSE 0)
         + SumQuantity(Tail(items), p)

(* C11: a successful create_order_from_cart creates one OrderItem per cart
   line with the line's product, quantity and snapshot unit price, takes the
   ordered quantity off each ordered product's stock, leaves every other
   stock as it was and marks the cart converted. *)
CheckoutCopiesCart ==
    [][(response'.op = "create_order_from_cart" /\ response'.ok
        /\ Len(orders') > Len(orders)) =>
          LET o == response'.order_id
              c == GetCart(DB, orders'[o].user_id, NoneId)
          IN /\ c # NoneId
             /\ Len(orders'[o].items) = Len(carts[c].items)
             /\ \A k \in Indices(carts[c].items) :
                   /\ orders'[o].items[k].product_id = carts[c].items[k].product_id
                   /\ orders'[o].items[k].quantity = carts[c].items[k].quantity
                   /\ orders'[o].items[k].price = carts[c].items[k].unit_price
             /\ \A p \in Products :
                   stock'[p] = stock[p] - SumQuantity(carts[c].items, p)
             /\ carts'[c].status = "converted"
             /\ carts'[c].items = carts[c].items]_vars

(* a cart of one product was checked out after the product's price changed:
   the item keeps the price of the cart line, the other product its stock *)
CheckoutCopiesCartWitness ==
    /\ response.op = "create_order_from_cart"
    /\ response.ok
    /\ response.order_id \in Indices(orders)
    /\ \E k \in Indices(orders[response.order_id].items) :
          LET item == orders[response.order_id].items[k]
          IN /\ item.price # price[item.product_id]
             /\ stock[item.product_id] = InitStock - item.quantity
    /\ \E p \in Products :
          /\ SumQuantity(orders[response.order_id].items, p) = 0
          /\ stock[p] = InitStock

(* the order_placed rows of order o for product p that log the change c *)
Reservations(o, p, c) ==
    {i \in Indices(ledger) : /\ ledger[i].reason = "order_placed"
                             /\ ledger[i].order_id = o
                             /\ ledger[i].product_id = p
                             /\ ledger[i].change_quantity = c}

(* the items of order o for product p and quantity q *)
ItemsOf(o, p, q) ==
    {k \in Indices(orders[o].items) : /\ orders[o].items[k].product_id = p
                                      /\ orders[o].items[k].quantity = q}

(* C12: every order_placed ledger row references a committed order and
   pairs off with one OrderItem of that order (same product, change_quantity
   = -quantity), and every OrderItem of a committed order pairs off with one
   such row: no reservation exists without a committed order. *)
ReservationsMatchItems ==
    /\ \A i \in Indices(ledger) :
          ledger[i].reason = "order_placed" =>
            /\ ledger[i].order_id \in Indices(orders)
            /\ Cardinality(Reservations(ledger[i].order_id, ledger[i].product_id,
                                        ledger[i].change_quantity))
               = Cardinality(ItemsOf(ledger[i].order_id, ledger[i].product_id,
                                     -ledger[i].change_quantity))
    /\ \A o \in Indices(orders) : \A k \in Indices(orders[o].items) :
          LET item == orders[o].items[k]
          IN Cardinality(ItemsOf(o, item.product_id, item.quantity))
             = Cardinality(Reservations(o, item.product_id, -item.quantity))

(* a committed guest order of two lines with its two reservations, reached
   after a creation that failed and was rolled back *)
ReservationsMatchItemsWitness ==
    /\ \E o \in Indices(orders) :
          /\ Len(orders[o].items) = 2
          /\ Cardinality({i \in Indices(ledger) :
                            /\ ledger[i].reason = "order_placed"
                            /\ ledger[i].order_id = o}) = 2
    /\ response.op = "create_guest_order"
    /\ ~response.ok

(* the callers of cancel_order: the users, not admins, and the admin *)
Callers == {<<u, FALSE>> : u \in Users} \cup {<<AdminId, TRUE>>}

NotCancellableStatuses == OrderStatus \ {"pending", "confirmed", "processing"}

(* C13 as stated: cancel_order on an order whose status is not PENDING,
   CONFIRMED or PROCESSING fails with NotCancellable, whoever calls, and
   changes no stock, ledger entry, order field or history row. *)
AnyCallerNotCancellable ==
    [][\A o \in OrderIds, c \in Callers :
         (/\ o \in Indices(orders)
          /\ orders[o].status \in NotCancellableStatuses
          /\ CancelOrder(o, c[1], c[2]))
         => /\ response'.err = "NotCancellable"
            /\ UNCHANGED dbvars]_vars

(* C13, amended: cancel_order by the owner or an admin on an order whose
   status is not PENDING, CONFIRMED or PROCESSING fails with NotCancellable;
   by any caller it fails and changes no stock, ledger entry, order field or
   history row, so a second cancel never releases stock again. *)
NotCancellableRejected ==
    [][\A o \in OrderIds, c \in Callers :
         (/\ o \in Indices(orders)
          /\ orders[o].status \in NotCancellableStatuses
          /\ CancelOrder(o, c[1], c[2]))
         => /\ ~response'.ok
            /\ (c[2] \/ orders[o].user_id = c[1]) => response'.err = "NotCancellable"
            /\ UNCHANGED dbvars]_vars

(* a second cancel of a cancelled cart order, by its owner or an admin, was
   refused: the one release stands *)
NotCancellableRejectedWitness ==
    /\ response.op = "cancel_order"
    /\ response.err = "NotCancellable"
    /\ \E o \in Indices(orders) :
          /\ orders[o].status = "cancelled"
          /\ orders[o].user_id \in Users
          /\ response.order_id = o
          /\ Cardinality({i \in Indices(ledger) :
                            /\ ledger[i].reason = "order_cancelled"
                            /\ ledger[i].order_id = o}) = Len(orders[o].items)

(* C14: on an order in a cancellable status that is older than the 24 hour
   window, cancel_order by its non-admin owner fails with WindowExpired and
   changes nothing; cancel_order by an admin succeeds, the status becomes
   CANCELLED and the stock of every item is restored. *)
WindowBindsOwnerOnly ==
    [][\A o \in OrderIds :
         (/\ o \in Indices(orders)
          /\ orders[o].status \in {"pending", "confirmed", "processing"}
          /\ orders[o].aged)
         => /\ \A u \in Users :
                 (orders[o].user_id = u /\ CancelOrder(o, u, FALSE))
                 => /\ response'.err = "WindowExpired"
                    /\ UNCHANGED dbvars
            /\ CancelOrder(o, AdminId, TRUE)
                 => /\ response'.ok
                    /\ orders'[o].status = "cancelled"
                    /\ \A p \in Products :
                          stock'[p] = stock[p] + SumQuantity(orders[o].items, p)]_vars

(* an admin cancelled a cart order older than the window: its one unit is
   back in stock *)
WindowBindsOwnerOnlyWitness ==
    /\ response.op = "cancel_order"
    /\ response.ok
    /\ \E o \in Indices(orders) :
          /\ response.order_id = o
          /\ orders[o].aged
          /\ orders[o].user_id \in Users
          /\ orders[o].status = "cancelled"
          /\ orders[o].items # <<>>
          /\ stock[orders[o].items[1].product_id] = InitStock

(* an owner's cancel of an order older than the window was refused *)
WindowExpiredWitness ==
    /\ response.op = "cancel_order"
    /\ response.err = "WindowExpired"
    /\ \E o \in Indices(orders) :
          /\ response.order_id = o
          /\ orders[o].aged
          /\ orders[o].status \in {"confirmed", "processing"}

(* C15: cancel_order by a caller who is neither an admin nor the order's
   owner, which on a guest order is every non-admin caller, fails with
   Forbidden whatever the order's status and age, and changes no stock,
   ledger entry, order field or history row. *)
StrangerForbidden ==
    [][\A o \in OrderIds, u \in Users :
         (/\ o \in Indices(orders)
          /\ orders[o].user_id # u
          /\ CancelOrder(o, u, FALSE))
         => /\ response'.err = "Forbidden"
            /\ response'.code = 403
            /\ UNCHANGED dbvars]_vars

(* a user's cancel of a guest order that is still pending and inside the
   window was refused *)
StrangerForbiddenWitness ==
    /\ response.op = "cancel_order"
    /\ response.err = "Forbidden"
    /\ \E o \in Indices(orders) :
          /\ response.order_id = o
          /\ orders[o].user_id = NoneId
          /\ orders[o].status = "pending"
          /\ ~orders[o].aged
          /\ stock[orders[o].items[1].product_id] = InitStock - orders[o].items[1].quantity

(* C16: update_payment_status, with or without a transaction reference,
   sets the order's payment_status to the requested value; when that value
   is paid and the order is PENDING the order also becomes CONFIRMED with
   one more history row (PENDING -> CONFIRMED); otherwise the order's status
   and the history are unchanged. *)
PaymentStatusApplied ==
    [][\A o \in OrderIds, ps \in PaymentInputs, tx \in {"", "TX"} :
         (o \in Indices(orders) /\ UpdatePaymentStatus(o, ps, tx))
         => /\ orders'[o].payment_status = ps
            /\ IF ps = "paid" /\ orders[o].status = "pending"
               THEN /\ orders'[o].status = "confirmed"
                    /\ Len(history') = Len(history) + 1
                    /\ SubSeq(history', 1, Len(history)) = history
                    /\ history'[Len(history')].order_id = o
                    /\ history'[Len(history')].from_status = "pending"
                    /\ history'[Len(history')].to_status = "confirmed"
               ELSE /\ orders'[o].status = orders[o].status
                    /\ history' = history]_vars

(* C17: once an order is created, no status update, payment update,
   cancellation, tracking update, price change, stock change or cart change
   modifies or deletes any of its OrderItems: product id, quantity and unit
   price stay as snapshotted. *)
OrderItemsFrozen ==
    [][/\ Len(orders') >= Len(orders)
       /\ \A o \in Indices(orders) : orders'[o].items = orders[o].items]_vars

(* a cancelled order whose item still carries the price of the order time,
   after the product's price changed and its stock was adjusted by hand *)
OrderItemsFrozenWitness ==
    /\ \E o \in Indices(orders) :
          /\ orders[o].status = "cancelled"
          /\ orders[o].items # <<>>
          /\ \A k \in Indices(orders[o].items) :
                /\ orders[o].items[k].price = 100
                /\ price[orders[o].items[k].product_id] = 150
    /\ \E i \in Indices(ledger) : ledger[i].reason = "manual"
    /\ response.op = "update_payment_status"
    /\ response.ok

(* C18: when an order creation fails because a reservation inside the
   transaction finds qty > stock, the caller receives the caller-facing
   InsufficientStock error (a 400), not a generic internal failure. *)
InsufficientStockSurfaces ==
    (/\ response.op \in {"create_order_from_cart", "create_guest_order"}
     /\ response.err = "InsufficientStock")
    => /\ ~response.wrapped
       /\ response.code = 400

(* C19: no two committed orders share an order_number, and an order
   creation whose generated number is in use verifies or regenerates it, so
   that the creation does not fail for the collision. *)
OrderNumberUniqueAndRetried ==
    /\ \A o1, o2 \in Indices(orders) :
          orders[o1].order_number = orders[o2].order_number => o1 = o2
    /\ response.err # "IntegrityError"

(* C20: every handler that changes Product.stock, the create and cancel
   handlers of app/api/routes/orders.py and the admin order status route
   included, writes in the same transaction ledger rows for the same product
   that add up to the same delta. *)
StockChangesAreLogged ==
    [][\A p \in Products :
         /\ Len(ledger') >= Len(ledger)
         /\ SubSeq(ledger', 1, Len(ledger)) = ledger
         /\ stock'[p] - stock[p] = SumChanges(ledger', p) - SumChanges(ledger, p)
         /\ stock'[p] # stock[p] =>
               \E i \in (Len(ledger) + 1)..Len(ledger') : ledger'[i].product_id = p]_vars


(* C21: in every reachable state, also after get_or_create_cart ran in two *)
(* requests at once for the same owner, no user id and no session token    *)
(* has more than one ACTIVE cart.                                          *)
ActiveCartsOfUser(user_id) ==
    {c \in Indices(carts) : carts[c].user_id = user_id /\ carts[c].status = "active"}

ActiveCartsOfSession(session_id) ==
    {c \in Indices(carts) :
        carts[c].session_id = session_id /\ carts[c].status = "active"}

AtMostOneActiveCart ==
    /\ \A u \in Users : Cardinality(ActiveCartsOfUser(u)) <= 1
    /\ \A t \in SessionTokens : Cardinality(ActiveCartsOfSession(t)) <= 1

(* C22: every cart created by get_or_create_cart, whatever combination of  *)
(* user id and session token it was called with, has exactly one of        *)
(* user_id and session_id set.                                             *)
OwnerIsExactlyOne ==
    \A c \in Indices(carts) :
        (carts[c].user_id # NoneId) # (carts[c].session_id # NoneId)

(* C23: get_or_create_cart for an owner, user or anonymous session, whose  *)
(* ACTIVE cart has expired marks that cart EXPIRED and returns a new empty *)
(* ACTIVE cart of the same owner; for an unexpired ACTIVE cart it returns  *)
(* that cart, its expiry moved forward.                                    *)
ReplacedBy(c, user_id, session_id) ==
    /\ response'.ok
    /\ carts'[c].status = "expired"
    /\ Len(carts') = Len(carts) + 1
    /\ carts'[Len(carts')] = NewCart(user_id, session_id)

Refreshed(c) ==
    /\ response'.ok
    /\ carts' = [carts EXCEPT ![c].expired = FALSE]

ExpiredCartReplaced ==
    [][\A o \in CartOwners :
         LET c == GetCart(DB, o[1], o[2]) IN
         (c # NoneId /\ GetOrCreateCartFor(o[1], o[2]))
            => IF carts[c].expired THEN ReplacedBy(c, o[1], o[2]) ELSE Refreshed(c)]_vars

(* C24: add_item fails with NotFound when the product is missing or        *)
(* inactive or the variation is missing, otherwise with LimitExceeded when *)
(* existing quantity + qty > 10, otherwise with InsufficientStock when     *)
(* existing quantity + qty exceeds the variation's stock (if tracked) else *)
(* the product's stock; on every failure the carts are unchanged.          *)
QuantityInCart(c, product_id, variation_id) ==
    LET i == ExistingItem(carts[c], product_id, variation_id)
    IN IF i = NoneId THEN 0 ELSE carts[c].items[i].quantity

ExpectedAddItemError(c, product_id, variation_id, quantity) ==
    IF \/ product_id \notin Products
       \/ ~active[product_id]
       \/ variation_id \notin {NoneId} \cup {v \in Variations : VariationProduct(v) = product_id}
    THEN "NotFound"
    ELSE IF QuantityInCart(c, product_id, variation_id) + quantity > 10
    THEN "LimitExceeded"
    ELSE IF QuantityInCart(c, product_id, variation_id) + quantity >
              (IF variation_id # NoneId THEN VariationStock(variation_id)
                                        ELSE stock[product_id])
    THEN "InsufficientStock"
    ELSE ""

AddItemErrorsInOrder ==
    [][\A c \in Indices(carts), a \in ItemArguments, q \in CartQuantities :
          CartAddItem(c, a[1], a[2], q)
             => /\ response'.err = ExpectedAddItemError(c, a[1], a[2], q)
                /\ (~response'.ok => carts' = carts)]_vars

(* add_item was refused for the limit although the stock was short too *)
AddItemErrorsInOrderWitness ==
    /\ response.op = "add_item"
    /\ response.err = "LimitExceeded"
    /\ \A p \in Products : stock[p] < MAX_QUANTITY_PER_ITEM

(* C25: after any sequence of successful add_item, update_item_quantity    *)
(* and merge_session_cart calls, the quantity of every cart line is in     *)
(* 1..10.                                                                  *)
QuantitiesInRange ==
    \A c \in Indices(carts) : \A i \in Indices(carts[c].items) :
        carts[c].items[i].quantity \in 1..MAX_QUANTITY_PER_ITEM

(* C26: a cart never holds two lines for the same (product, variation)     *)
(* pair: add_item for a pair already in the cart adds the quantity to the  *)
(* existing line and refreshes its unit-price snapshot, and creates no     *)
(* second line.                                                            *)
LinesFor(cart, product_id, variation_id) ==
    {i \in Indices(cart.items) :
        /\ cart.items[i].product_id = product_id
        /\ cart.items[i].variation_id = variation_id}

NoDuplicateLines(cart) ==
    \A a \in CartLines : Cardinality(LinesFor(cart, a[1], a[2])) <= 1

AddItemMergesLines ==
    [][/\ \A c \in Indices(carts') : NoDuplicateLines(carts'[c])
       /\ \A c \in Indices(carts), a \in CartLines, q \in CartQuantities :
             \A i \in LinesFor(carts[c], a[1], a[2]) :
                (CartAddItem(c, a[1], a[2], q) /\ response'.ok)
                   => carts'[c].items =
                         [carts[c].items EXCEPT ![i].quantity = @ + q,
                                                ![i].unit_price = price[a[1]]]]_vars

(* a line that grew to three units by add_item, at the changed price *)
AddItemMergesLinesWitness ==
    /\ response.op = "add_item"
    /\ response.ok
    /\ \E c \in Indices(carts) : \E i \in Indices(carts[c].items) :
          /\ carts[c].items[i].quantity = 3
          /\ carts[c].items[i].unit_price = 150
          /\ price[carts[c].items[i].product_id] = 150

(* C27: after every successful add_item, update_item_quantity, remove_item *)
(* and clear_cart, the cached subtotal, tax and total of the cart equal    *)
(* the totals algorithm on its current lines: subtotal = sum of unit_price *)
(* x quantity, tax = subtotal x rate, total = subtotal + tax + shipping -  *)
(* discount.  As stated, shipping is the flat fee unless the subtotal      *)
(* reaches the free-shipping threshold:                                    *)
RECURSIVE SumOfLines(_)
SumOfLines(items) ==
    IF items = <<>> THEN 0
    ELSE Head(items).unit_price * Head(items).quantity + SumOfLines(Tail(items))

TotalsAre(cart, shipping) ==
    /\ cart.subtotal = SumOfLines(cart.items)
    /\ cart.tax_amount = (cart.subtotal * TAX_RATE_PERCENT) \div 100
    /\ cart.total = cart.subtotal + cart.tax_amount + shipping - cart.discount_amount

ChangedLinesOf(c) ==
    /\ response'.ok
    /\ \/ \E a \in CartLines : CartAddItem(c, a[1], a[2], 1)
       \/ \E i \in ItemIds, q \in {0, 1} : UpdateItemQuantity(c, i, q)
       \/ \E i \in ItemIds : RemoveItem(c, i)
       \/ ClearCart(c)

CachedTotalsFlatFeeBelowThreshold ==
    [][\A c \in Indices(carts) :
          ChangedLinesOf(c)
             => TotalsAre(carts'[c],
                          IF carts'[c].subtotal >= FREE_SHIPPING_THRESHOLD
                          THEN 0 ELSE SHIPPING_COST)]_vars

(* C27, as the code has it: no shipping is charged on a subtotal of zero   *)
(* either, so the flat fee applies when 0 < subtotal < threshold.          *)
CachedTotalsMatchLines ==
    [][\A c \in Indices(carts) :
          ChangedLinesOf(c)
             => TotalsAre(carts'[c],
                          IF carts'[c].subtotal >= FREE_SHIPPING_THRESHOLD
                             \/ carts'[c].subtotal = 0
                          THEN 0 ELSE SHIPPING_COST)]_vars

(* a line was removed and the rest of the cart ships free *)
CachedTotalsMatchLinesWitness ==
    /\ response.op = "remove_item"
    /\ response.ok
    /\ \E c \in Indices(carts) :
          /\ carts[c].items # <<>>
          /\ carts[c].subtotal >= FREE_SHIPPING_THRESHOLD
          /\ carts[c].total = carts[c].subtotal + carts[c].tax_amount

(* C28: for every cart content, the subtotal, tax, shipping and total that *)
(* create_order_from_cart computes for the order equal what the cart's own *)
(* totals algorithm yields for the same cart at that moment, the cart's    *)
(* discount included.                                                      *)
OrderTotalsEqualCartTotals ==
    [][\A u \in Shoppers :
          LET s == CreateOrderFromCartOp(DB, active, u, TRUE) IN
          (CreateOrderFromCart(u, TRUE) /\ response'.ok)
             => s.totals = CartTotals(carts[s.cart_id])]_vars

(* C29: merge_session_cart on a non-empty ACTIVE session cart replays each *)
(* session line through add_item on the user's cart: a line that fails     *)
(* validation is skipped without raising and without changing the user     *)
(* cart, the other lines are merged, and the session cart ends CONVERTED   *)
(* however many lines failed.                                              *)
QuantityOf(items, product_id, variation_id) ==
    LET lines == {i \in Indices(items) :
                    /\ items[i].product_id = product_id
                    /\ items[i].variation_id = variation_id}
    IN IF lines = {} THEN 0 ELSE items[Min(lines)].quantity

(* what add_item accepts: the product is on sale, the resulting quantity   *)
(* within the limit and the stock                                          *)
Mergeable(product_id, variation_id, resulting) ==
    /\ active[product_id]
    /\ resulting <= MAX_QUANTITY_PER_ITEM
    /\ resulting <= (IF variation_id # NoneId THEN VariationStock(variation_id)
                                              ELSE stock[product_id])

MergedInto(before, after, session_items) ==
    \A a \in CartLines :
        LET mine  == QuantityOf(before, a[1], a[2])
            other == QuantityOf(session_items, a[1], a[2])
        IN QuantityOf(after, a[1], a[2]) =
              IF other # 0 /\ Mergeable(a[1], a[2], mine + other)
              THEN mine + other ELSE mine

MergeSkipsFailingLines ==
    [][\A u \in Shoppers, t \in SessionTokens :
          LET session_cart == GetCart(DB, NoneId, t)
              user_cart    == GetCart(DB, u, NoneId)
          IN (/\ session_cart # NoneId
              /\ carts[session_cart].items # <<>>
              /\ MergeSessionCart(u, t))
             => /\ response'.ok
                /\ carts'[session_cart].status = "converted"
                /\ IF user_cart = NoneId
                   THEN MergedInto(<<>>, carts'[Len(carts')].items,
                                   carts[session_cart].items)
                   ELSE MergedInto(carts[user_cart].items, carts'[user_cart].items,
                                   carts[session_cart].items)]_vars

(* C30: create_order_from_cart rejects, leaving stock, ledger, orders,     *)
(* history and carts as they were, a checkout whose owner has no ACTIVE    *)
(* cart or an ACTIVE cart without lines (EmptyCart), and a checkout whose  *)
(* pre-check finds a line with an inactive product or a quantity above the *)
(* current stock (ValidationFailed, listing every issue).                  *)
IssueOfLine(line) ==
    IF ~active[line.product_id] THEN "unavailable"
    ELSE IF line.quantity > (IF line.variation_id # NoneId
                             THEN VariationStock(line.variation_id)
                             ELSE stock[line.product_id])
    THEN "stock"
    ELSE ""

OffendingLines(cart) ==
    {i \in Indices(cart.items) : IssueOfLine(cart.items[i]) # ""}

ListsEveryIssue(issues, cart) ==
    /\ Len(issues) = Cardinality(OffendingLines(cart))
    /\ \A i \in OffendingLines(cart) : \E k \in Indices(issues) :
          issues[k] = [product_id |-> cart.items[i].product_id,
                       issue |-> IssueOfLine(cart.items[i])]

CheckoutRejectsBadCarts ==
    [][\A u \in Users :
          LET cart == GetCart(DB, u, NoneId)
              s    == CreateOrderFromCartOp(DB, active, u, TRUE)
          IN CreateOrderFromCart(u, TRUE)
             => IF cart = NoneId \/ carts[cart].items = <<>>
                THEN response'.err = "EmptyCart" /\ UNCHANGED dbvars
                ELSE OffendingLines(carts[cart]) # {}
                        => /\ response'.err = "ValidationFailed"
                           /\ UNCHANGED dbvars
                           /\ ListsEveryIssue(s.issues, carts[cart])]_vars

(* a checkout was refused for a cart with two lines at fault *)
CheckoutRejectsBadCartsWitness ==
    /\ response.op = "create_order_from_cart"
    /\ response.err = "ValidationFailed"
    /\ orders = <<>>
    /\ \E c \in Indices(carts) :
          /\ carts[c].status = "active"
          /\ Cardinality(OffendingLines(carts[c])) >= 2
          /\ \E i, j \in OffendingLines(carts[c]) :
                IssueOfLine(carts[c].items[i]) # IssueOfLine(carts[c].items[j])

(* C31: recomputing the totals of a cart is idempotent: get_cart_summary   *)
(* run twice on a cart whose lines have not changed yields the same        *)
(* subtotal, tax, shipping and total both times, and the same as the       *)
(* recomputation that followed the last change of the lines, whatever      *)
(* happened to the catalogue in between.                                   *)
RecomputeIsIdempotent ==
    [][\A c \in Indices(carts) :
          LET once  == GetCartSummaryOp(DB, c)
              twice == GetCartSummaryOp(once, c)
          IN GetCartSummary(c)
             => /\ twice.totals = once.totals
                /\ twice.carts[c] = once.carts[c]
                /\ carts'[c] = carts[c]]_vars

(* the summary of a cart was asked for after the price of one of its       *)
(* products had changed                                                    *)
RecomputeIsIdempotentWitness ==
    /\ response.op = "get_cart_summary"
    /\ \E c \in Indices(carts) : \E i \in Indices(carts[c].items) :
          /\ carts[c].items[i].quantity > 0
          /\ carts[c].items[i].unit_price # price[carts[c].items[i].product_id]

(* C32: for every (from, to) pair of the transition table,                 *)
(* update_order_status on an order whose status is from, with or without   *)
(* notes, succeeds: the status of the order becomes to and exactly one     *)
(* history row (from, to, actor) is appended.                              *)
TablePairsSucceed ==
    [][\A o \in OrderIds, st \in OrderStatus, n \in {NoNotes, "note"} :
          (/\ o \in Indices(orders)
           /\ st \in ValidStatusTransitions(orders[o].status)
           /\ UpdateOrderStatus(o, st, n))
             => /\ response'.ok
                /\ orders'[o].status = st
                /\ history' = Append(history,
                       [order_id |-> o, from_status |-> orders[o].status,
                        to_status |-> st, changed_by |-> AdminId,
                        notes |-> n])]_vars


(* C33: status-dependent metadata is recorded on the stored order: an
   update_order_status into SHIPPED succeeds and leaves a shipped timestamp
   on the order, one into DELIVERED a delivered timestamp, and a successful
   cancel_order leaves cancelled_at, cancelled_by and the cancellation
   reason, each a stored attribute that a later read of the order returns. *)
StoredOnOrder(attr) == attr \in OrderColumns

StatusMetadataRecorded ==
    [][\A o \in OrderIds :
         /\ \A n \in {NoNotes, "note"} :
              (/\ o \in Indices(orders)
               /\ "shipped" \in ValidStatusTransitions(orders[o].status)
               /\ UpdateOrderStatus(o, "shipped", n))
                 => /\ response'.ok
                    /\ orders'[o].status = "shipped"
                    /\ StoredOnOrder("shipped_at")
         /\ \A n \in {NoNotes, "note"} :
              (/\ o \in Indices(orders)
               /\ "delivered" \in ValidStatusTransitions(orders[o].status)
               /\ UpdateOrderStatus(o, "delivered", n))
                 => /\ response'.ok
                    /\ orders'[o].status = "delivered"
                    /\ StoredOnOrder("delivered_at")
         /\ \A c \in Callers :
              (CancelOrder(o, c[1], c[2]) /\ response'.ok)
                 => /\ orders'[o].status = "cancelled"
                    /\ StoredOnOrder("cancelled_at")
                    /\ StoredOnOrder("cancelled_by")
                    /\ StoredOnOrder("cancellation_reason")]_vars


(* C34: add_tracking_info by an admin on an order in PENDING, CONFIRMED or
   PROCESSING succeeds: afterwards the order carries the given tracking
   number and carrier and its status is SHIPPED. *)
TrackingShipsOrder ==
    [][\A o \in OrderIds :
         (/\ o \in Indices(orders)
          /\ orders[o].status \in {"pending", "confirmed", "processing"}
          /\ AddTrackingInfo(o))
            => /\ response'.ok
               /\ orders'[o].tracking_number = "TRK"
               /\ orders'[o].carrier = "DHL"
               /\ orders'[o].status = "shipped"]_vars


(* C35: for every order, its status-history rows form a chain that agrees
   with the order: the first row is (none -> PENDING), each later row's
   from_status is the to_status of the row before it, the last row's
   to_status is the order's current status; and no step modifies or deletes
   a row: the history before the step is a prefix of the history after. *)
HistoryOf(h, order_id) == SelectSeq(h, LAMBDA r : r.order_id = order_id)

HistoryChainAgrees(h, os) ==
    \A o \in Indices(os) :
       LET rows == HistoryOf(h, o) IN
         /\ rows # <<>>
         /\ rows[1].from_status = NoStatus
         /\ rows[1].to_status = "pending"
         /\ \A k \in 2..Len(rows) : rows[k].from_status = rows[k - 1].to_status
         /\ rows[Len(rows)].to_status = os[o].status

HistoryIsAChain ==
    [][/\ HistoryChainAgrees(history', orders')
       /\ Len(history) <= Len(history')
       /\ SubSeq(history', 1, Len(history)) = history]_vars


(* C36: a cart that became CONVERTED, by checkout or by the merge of a
   session cart, had its CartItems deleted: in every reachable state a
   CONVERTED cart has no items. *)
ConvertedCartsAreEmpty ==
    \A c \in Indices(carts) :
       carts[c].status = "converted" => carts[c].items = <<>>


(* C37: no operation of the Cart Manager (get_or_create_cart, add_item,
   update_item_quantity, remove_item, clear_cart, validate_cart_for_checkout,
   merge_session_cart) changes the stock of any product or appends a ledger
   entry. *)
CartOperationsLeaveStock ==
    [][CartManagerActions => (stock' = stock /\ ledger' = ledger)]_vars

(* a line was added to a cart after the stock had been adjusted *)
CartOperationsLeaveStockWitness ==
    /\ response.op = "add_item"
    /\ response.ok
    /\ ledger # <<>>
    /\ \E c \in Indices(carts) : carts[c].items # <<>>


(* C38: under any interleaving of two concurrent create_order_from_cart
   calls by the same owner against the same ACTIVE cart, at most one order
   is created from that cart and the cart's quantities are reserved at most
   once: a customer never has more orders, nor more reservations in the
   ledger, than carts that were converted (each cart here holds one line). *)
OrdersOfUser(user_id) == {o \in Indices(orders) : orders[o].user_id = user_id}

ConvertedCartsOfUser(user_id) ==
    {c \in Indices(carts) : carts[c].user_id = user_id
                            /\ carts[c].status = "converted"}

ReservationsOfUser(user_id) ==
    {k \in Indices(ledger) : /\ ledger[k].reason = "order_placed"
                             /\ ledger[k].order_id \in OrdersOfUser(user_id)}

OneOrderPerCart ==
    \A u \in Users :
       /\ Cardinality(OrdersOfUser(u)) <= Cardinality(ConvertedCartsOfUser(u))
       /\ Cardinality(ReservationsOfUser(u)) <= Cardinality(ConvertedCartsOfUser(u))


(* C39: under any interleaving of two concurrent cancel_order calls on the
   same cancellable order, the stock of each of its items is released at
   most once: the ledger holds at most one order_cancelled row per item of
   the order, and the product's stock never rises above the value it had
   before the order was placed. *)
ReleasesOfOrder(order_id) ==
    {k \in Indices(ledger) : /\ ledger[k].reason = "order_cancelled"
                             /\ ledger[k].order_id = order_id}

ReleasedAtMostOnce ==
    /\ \A o \in Indices(orders) :
          Cardinality(ReleasesOfOrder(o)) <= Len(orders[o].items)
    /\ \A p \in Products : stock[p] <= InitStock


(* C40: for a product variation with tracked stock, the total quantity of
   that variation across all committed, non-cancelled orders never exceeds
   the variation's stock: checkout checks and decrements the stock figure
   that add_item and validate_cart_for_checkout check for the line. *)
RECURSIVE VariationUnits(_, _)
VariationUnits(items, v) ==
    IF items = <<>> THEN 0
    ELSE (IF Head(items).variation_id = v THEN Head(items).quantity ELSE 0)
         + VariationUnits(Tail(items), v)

RECURSIVE VariationUnitsOrdered(_, _)
VariationUnitsOrdered(os, v) ==
    IF os = <<>> THEN 0
    ELSE (IF Head(os).status # "cancelled"
          THEN VariationUnits(Head(os).items, v) ELSE 0)
         + VariationUnitsOrdered(Tail(os), v)

VariationNeverOversold ==
    \A v \in Variations : VariationUnitsOrdered(orders, v) <= VariationStock(v)

====
